---- MODULE Spec2Model ----
(***************************************************************************)
(* PacingEngine (src/pacing_engine.py), SniperStrategy                     *)
(* (src/sniper_strategy.py), the relevance score of PostFinder             *)
(* (src/post_finder.py) and the parts of the orchestrator that drive them  *)
(* (src/maven_orchestrator.py).                                            *)
(*                                                                         *)
(* Time is counted in whole seconds since midnight of day 0.  A string is  *)
(* modelled as the sequence of its '_'-separated segments, because the     *)
(* code builds the daily_counts keys with '_' and takes them apart again   *)
(* with split('_').                                                        *)
(***************************************************************************)
EXTENDS Integers, Sequences, FiniteSets, TLC

VARIABLES now, state, disk, ret, ticks, records, posts,
          tracking, tracking_file, sret,
          finder, candidates, scored,
          replied_posts, results, verdict, run, constructed, peer,
          replied_file

vars == <<now, state, disk, ret, ticks, records, posts,
          tracking, tracking_file, sret,
          finder, candidates, scored,
          replied_posts, results, verdict, run, constructed, peer,
          replied_file>>

----------------------------------------------------------------------------
(* Program constants                                                       *)

min_delay_minutes == 10
max_daily_per_subreddit == 5
consecutive_cooldown_minutes == 60
KeepDays == 7
DefaultPriority == 1
OrchestratorPriority == 3

SecondsPerMinute == 60
SecondsPerDay == 86400

----------------------------------------------------------------------------
(* Bounds of the model: clock advances, record_action calls and queued     *)
(* actions per behaviour, for each of the three specifications, and the    *)
(* time of day (12:34:56 of day 0) at which the engine is constructed      *)

MaxTicks == 2
MaxRecords == 3
MaxRunTicks == 2
MaxRunPosts == 1
MaxQueueTicks == 1
MaxQueueRecords == 1
MaxQueued == 2
MaxDeployed == 2
MaxSniperTicks == 1
MaxCandidates == 2
MaxFound == 2
MaxExisting == 2
MaxItems == 3
MaxSharedRecords == 2
MaxSharedQueued == 2
MaxScanned == 2
MaxPipelinePosts == 2
MaxReopenRecords == 2
MaxDispatchQueued == 2
MaxLaterRuns == 1
StartOfRun == 45296

Advances == {10 * SecondsPerMinute, 60 * SecondsPerMinute,
             SecondsPerDay, 8 * SecondsPerDay}
QueueAdvances == {60 * SecondsPerMinute}

----------------------------------------------------------------------------
(* Optional values: None is the empty sequence, a value v is <<v>>         *)

None == <<>>
Some(v) == <<v>>
IsNone(o) == o = <<>>
The(o) == o[1]

----------------------------------------------------------------------------
(* Strings, dates and timestamps                                           *)

\* A segment of a string between two '_': ordinary text, or a date
\* written by strftime('%Y-%m-%d') (which holds no '_').
Txt(s) == [text |-> s, day |-> -1]
Dat(d) == [text |-> "%Y-%m-%d", day |-> d]
IsDate(seg) == seg.text = "%Y-%m-%d"

\* now.strftime('%Y-%m-%d')
Strftime(t) == Dat(t \div SecondsPerDay)

\* datetime.isoformat() and datetime.fromisoformat()
IsoFormat(t) == [date |-> t \div SecondsPerDay, time |-> t % SecondsPerDay]
FromIsoFormat(s) == s.date * SecondsPerDay + s.time

\* Text segments that begin with a character below '2' (a digit 0 or 1)
\* sort before every date string of this millennium; text that begins
\* with a letter sorts after every date string.
SortsBeforeDates(s) == s \in {"10"}

\* Python's str >= str between a segment and a date string
StrGE(seg, date) ==
    IF IsDate(seg) THEN seg.day >= date.day ELSE ~SortsBeforeDates(seg.text)

\* f"{subreddit}_{today}"
Key(subreddit, today) == Append(subreddit, today)

\* k.split('_')[1]
SplitField1(k) == k[2]

\* Subreddit names: one without '_', one whose second segment sorts after
\* the dates ("ask_reddit"), one whose second segment sorts before them
\* ("top_10")
Subreddits == { <<Txt("productivity")>>,
                <<Txt("ask"), Txt("reddit")>>,
                <<Txt("top"), Txt("10")>> }

----------------------------------------------------------------------------
(* The state dictionary                                                    *)

EmptyState ==
    [last_action_time |-> None,
     action_queue |-> <<>>,
     daily_counts |-> <<>>,
     consecutive_count |-> 0]

\* dict.get(key, 0) on daily_counts
GetCount(counts, key) == IF key \in DOMAIN counts THEN counts[key] ELSE 0

\* dict[key] = v
SetCount(counts, key, v) ==
    [k \in (DOMAIN counts) \cup {key} |-> IF k = key THEN v ELSE counts[k]]

\* {k: v for k, v in counts.items() if k.split('_')[1] >= cutoff}
CleanOld(counts, cutoff) ==
    [k \in {j \in DOMAIN counts : StrGE(SplitField1(j), cutoff)} |-> counts[k]]

NoResult ==
    [op |-> "none", subreddit |-> <<>>, can_post |-> FALSE, reason |-> "",
     wait_seconds |-> None, next_available |-> None, action |-> None]

----------------------------------------------------------------------------
(* can_post_now                                                            *)

\* Mutant: the escalation to the cooldown is left out
RequiredDelayNoCooldown(st) == min_delay_minutes

\* required_delay, in minutes
RequiredDelay(st) ==
    IF st.consecutive_count >= 3 THEN consecutive_cooldown_minutes
    ELSE min_delay_minutes

\* (now + timedelta(days=1)).replace(hour=0, minute=0): the second of the
\* minute is kept
NextDayReplace(t) ==
    (t \div SecondsPerDay + 1) * SecondsPerDay + (t % SecondsPerMinute)

\* Mutant: the daily-limit test with > for >=
DailyLimitOffByOne(st, t, subreddit) ==
    GetCount(st.daily_counts, Key(subreddit, Strftime(t)))
        > max_daily_per_subreddit

\* Mutant: the daily limit counts today's actions on every subreddit
DailyLimitAnySubreddit(st, t, subreddit) ==
    \E k \in DOMAIN st.daily_counts :
        /\ k[Len(k)] = Strftime(t)
        /\ st.daily_counts[k] >= max_daily_per_subreddit

\* Mutant: a count that reached the limit on an earlier day still counts
DailyLimitNeverExpires(st, t, subreddit) ==
    \E k \in DOMAIN st.daily_counts :
        /\ SubSeq(k, 1, Len(k) - 1) = subreddit
        /\ st.daily_counts[k] >= max_daily_per_subreddit

\* The daily-limit test of can_post_now
DailyLimitReached(st, t, subreddit) ==
    GetCount(st.daily_counts, Key(subreddit, Strftime(t)))
        >= max_daily_per_subreddit

\* Mutant: a zero elapsed time is taken for "no prior action"
TooSoonUnlessZero(st, t) ==
    /\ ~IsNone(st.last_action_time)
    /\ t - FromIsoFormat(The(st.last_action_time)) > 0
    /\ t - FromIsoFormat(The(st.last_action_time))
         < RequiredDelay(st) * SecondsPerMinute

\* The interval test of can_post_now; elapsed and required in seconds
TooSoon(st, t) ==
    /\ ~IsNone(st.last_action_time)
    /\ t - FromIsoFormat(The(st.last_action_time))
         < RequiredDelay(st) * SecondsPerMinute

\* wait_seconds is int((required_delay - elapsed_minutes) * 60); on whole
\* seconds that is required - elapsed, up to the rounding of the float
\* arithmetic.
CanPostNow(st, t, subreddit) ==
    IF DailyLimitReached(st, t, subreddit)
    THEN [NoResult EXCEPT !.op = "can_post_now", !.subreddit = subreddit,
             !.can_post = FALSE, !.reason = "Daily limit reached",
             !.wait_seconds = None,
             !.next_available = Some(IsoFormat(NextDayReplace(t)))]
    ELSE IF TooSoon(st, t)
    THEN LET last_time == FromIsoFormat(The(st.last_action_time))
             required == RequiredDelay(st) * SecondsPerMinute
         IN [NoResult EXCEPT !.op = "can_post_now", !.subreddit = subreddit,
                !.can_post = FALSE, !.reason = "Too soon",
                !.wait_seconds = Some(required - (t - last_time)),
                !.next_available = Some(IsoFormat(last_time + required))]
    ELSE [NoResult EXCEPT !.op = "can_post_now", !.subreddit = subreddit,
             !.can_post = TRUE, !.reason = "Ready to post",
             !.wait_seconds = Some(0),
             !.next_available = Some(IsoFormat(t))]

----------------------------------------------------------------------------
(* record_action, reset_consecutive                                        *)

\* Mutant: a break as long as the cooldown restarts the consecutive count
RecordActionStateAutoReset(st, t, subreddit) ==
    LET key == Key(subreddit, Strftime(t))
        counted == SetCount(st.daily_counts, key,
                            GetCount(st.daily_counts, key) + 1)
        cutoff == Strftime(t - KeepDays * SecondsPerDay)
        rested == /\ ~IsNone(st.last_action_time)
                  /\ t - FromIsoFormat(The(st.last_action_time))
                       >= consecutive_cooldown_minutes * SecondsPerMinute
    IN [st EXCEPT !.last_action_time = Some(IsoFormat(t)),
                  !.daily_counts = CleanOld(counted, cutoff),
                  !.consecutive_count = IF rested THEN 1 ELSE @ + 1]

\* Mutant: the first action of a day restarts the consecutive count
RecordActionStateDailyRestart(st, t, subreddit) ==
    LET key == Key(subreddit, Strftime(t))
        counted == SetCount(st.daily_counts, key,
                            GetCount(st.daily_counts, key) + 1)
        cutoff == Strftime(t - KeepDays * SecondsPerDay)
        first == \/ IsNone(st.last_action_time)
                 \/ The(st.last_action_time).date < Strftime(t).day
    IN [st EXCEPT !.last_action_time = Some(IsoFormat(t)),
                  !.daily_counts = CleanOld(counted, cutoff),
                  !.consecutive_count = IF first THEN 1 ELSE @ + 1]

\* Mutant: record_action checks the gate again and does nothing when it
\* refuses
RecordActionStateGated(st, t, subreddit) ==
    IF ~CanPostNow(st, t, subreddit).can_post THEN st
    ELSE LET key == Key(subreddit, Strftime(t))
             counted == SetCount(st.daily_counts, key,
                                 GetCount(st.daily_counts, key) + 1)
             cutoff == Strftime(t - KeepDays * SecondsPerDay)
         IN [st EXCEPT !.last_action_time = Some(IsoFormat(t)),
                       !.daily_counts = CleanOld(counted, cutoff),
                       !.consecutive_count = @ + 1]

RecordActionState(st, t, subreddit) ==
    LET key == Key(subreddit, Strftime(t))
        counted == SetCount(st.daily_counts, key,
                            GetCount(st.daily_counts, key) + 1)
        cutoff == Strftime(t - KeepDays * SecondsPerDay)
    IN [st EXCEPT !.last_action_time = Some(IsoFormat(t)),
                  !.daily_counts = CleanOld(counted, cutoff),
                  !.consecutive_count = @ + 1]

ResetConsecutiveState(st) == [st EXCEPT !.consecutive_count = 0]

----------------------------------------------------------------------------
(* queue_action, get_next_action                                           *)

\* x.get('priority', 1)
PriorityOf(x) == IF IsNone(x.priority) THEN DefaultPriority ELSE The(x.priority)

\* list.sort(key=..., reverse=True): a stable sort, descending
RECURSIVE InsertByPriority(_, _)
InsertByPriority(sorted, x) ==
    IF sorted = <<>> THEN <<x>>
    ELSE IF PriorityOf(Head(sorted)) >= PriorityOf(x)
         THEN <<Head(sorted)>> \o InsertByPriority(Tail(sorted), x)
         ELSE <<x>> \o sorted

RECURSIVE SortQueueFrom(_, _)
SortQueueFrom(sorted, rest) ==
    IF rest = <<>> THEN sorted
    ELSE SortQueueFrom(InsertByPriority(sorted, Head(rest)), Tail(rest))

\* Mutant: reverse=True is left out, the sort is ascending
RECURSIVE SortQueueAscending(_)
SortQueueAscending(q) ==
    IF q = <<>> THEN <<>>
    ELSE LET low == CHOOSE i \in 1..Len(q) :
                        \A j \in 1..Len(q) :
                            \/ PriorityOf(q[i]) < PriorityOf(q[j])
                            \/ PriorityOf(q[i]) = PriorityOf(q[j]) /\ i <= j
         IN <<q[low]>> \o SortQueueAscending(
                [k \in 1..(Len(q) - 1) |-> IF k < low THEN q[k] ELSE q[k + 1]])

SortQueue(q) == SortQueueFrom(<<>>, q)

QueueActionState(st, t, action) ==
    [st EXCEPT !.action_queue =
        Append(@, [action EXCEPT !.queued_at = Some(IsoFormat(t))])]

\* Mutant: get_next_action counts the action it hands out as recorded
GetNextActionRecords(st, t) ==
    IF st.action_queue = <<>> THEN st
    ELSE LET sorted == SortQueue(st.action_queue)
             sortedState == [st EXCEPT !.action_queue = sorted]
         IN IF CanPostNow(sortedState, t, sorted[1].subreddit).can_post
            THEN [st EXCEPT !.action_queue = Tail(sorted),
                            !.last_action_time = Some(IsoFormat(t))]
            ELSE sortedState

\* Mutant: get_next_action leaves the action it returns in the queue
GetNextActionKeeps(st, t) ==
    IF st.action_queue = <<>> THEN st
    ELSE [st EXCEPT !.action_queue = SortQueue(st.action_queue)]

\* The state get_next_action leaves in memory: the queue sorted in place,
\* and its first action popped when the gate approves that action's
\* subreddit.
GetNextActionState(st, t) ==
    IF st.action_queue = <<>> THEN st
    ELSE LET sorted == SortQueue(st.action_queue)
             sortedState == [st EXCEPT !.action_queue = sorted]
         IN IF CanPostNow(sortedState, t, sorted[1].subreddit).can_post
            THEN [st EXCEPT !.action_queue = Tail(sorted)]
            ELSE sortedState

\* Mutant: get_next_action returns the first action of the sorted queue
\* whose subreddit the gate approves
GetNextActionFirstApproved(st, t) ==
    LET sorted == SortQueue(st.action_queue)
        sortedState == [st EXCEPT !.action_queue = sorted]
        approved == {i \in DOMAIN sorted :
                        CanPostNow(sortedState, t, sorted[i].subreddit).can_post}
    IN IF approved = {} THEN None
       ELSE Some(sorted[CHOOSE i \in approved : \A j \in approved : i <= j])

\* What get_next_action returns: the first action after the sort, or None
GetNextActionResult(st, t) ==
    IF st.action_queue = <<>> THEN None
    ELSE LET sorted == SortQueue(st.action_queue)
             sortedState == [st EXCEPT !.action_queue = sorted]
         IN IF CanPostNow(sortedState, t, sorted[1].subreddit).can_post
            THEN Some(sorted[1])
            ELSE None

\* Whether get_next_action reaches its _save_state()
GetNextActionSaves(st, t) == ~IsNone(GetNextActionResult(st, t))

\* The action dictionaries handed to queue_action
Priorities == {None, Some(1), Some(3)}
QueueSubreddits == { <<Txt("productivity")>>, <<Txt("ask"), Txt("reddit")>> }

NewAction(subreddit, post_id, priority) ==
    [type |-> "comment", subreddit |-> subreddit, post_id |-> post_id,
     priority |-> priority, queued_at |-> None]

----------------------------------------------------------------------------
(* The state file found at construction                                    *)

\* A state file written by an earlier process: four actions recorded on
\* r/productivity earlier on the day of the run, 10, 10 and 60 minutes
\* apart, the last one 100 minutes before the run starts.
EarlierRunState ==
    LET t0 == StartOfRun - 180 * SecondsPerMinute
        s == <<Txt("productivity")>>
        s1 == RecordActionState(EmptyState, t0, s)
        s2 == RecordActionState(s1, t0 + 10 * SecondsPerMinute, s)
        s3 == RecordActionState(s2, t0 + 20 * SecondsPerMinute, s)
    IN RecordActionState(s3, t0 + 80 * SecondsPerMinute, s)

\* _load_state: the file's content, or the default when there is no file
LoadState(file) == IF IsNone(file) THEN EmptyState ELSE The(file)

StateFiles == {None, Some(EarlierRunState)}


----------------------------------------------------------------------------
(* SniperStrategy (src/sniper_strategy.py)                                 *)
(*                                                                         *)
(* A trigger phrase and the body of a comment are modelled as the sequence *)
(* of their characters, because the code lower-cases the one and looks for *)
(* the other inside it.                                                    *)

UpperCaseLetters ==
    <<"A", "B", "C", "D", "E", "F", "G", "H", "I", "J", "K", "L", "M",
      "N", "O", "P", "Q", "R", "S", "T", "U", "V", "W", "X", "Y", "Z">>
LowerCaseLetters ==
    <<"a", "b", "c", "d", "e", "f", "g", "h", "i", "j", "k", "l", "m",
      "n", "o", "p", "q", "r", "s", "t", "u", "v", "w", "x", "y", "z">>

\* str.lower(), one character and a whole string
LowerOf ==
    [c \in {UpperCaseLetters[i] : i \in DOMAIN UpperCaseLetters} |->
        LowerCaseLetters[CHOOSE i \in DOMAIN UpperCaseLetters :
                             UpperCaseLetters[i] = c]]
LowerChar(c) == IF c \in DOMAIN LowerOf THEN LowerOf[c] ELSE c
RECURSIVE Lower(_)
Lower(s) ==
    IF s = <<>> THEN <<>> ELSE <<LowerChar(Head(s))>> \o Lower(Tail(s))

\* Python's  sub in s  between two strings
Contains(sub, s) ==
    \E i \in 0..(Len(s) - Len(sub)) : SubSeq(s, i + 1, i + Len(sub)) = sub

\* The phrases and bodies of the model
link_lower == <<"l", "i", "n", "k", "?">>
link_capital == <<"L", "i", "n", "k", "?">>
link_upper == <<"L", "I", "N", "K", "?">>
what_app == <<"w", "h", "a", "t", " ", "a", "p", "p">>
which_tool == <<"w", "h", "i", "c", "h", " ", "t", "o", "o", "l">>
what_do_you_use ==
    <<"w", "h", "a", "t", " ", "d", "o", " ", "y", "o", "u", " ", "u", "s", "e">>
thanks == <<"T", "h", "a", "n", "k", "s">>

\* The trigger list the orchestrator passes to deploy_sniper_comment
OrchestratorTriggers == <<what_app, which_tool, link_lower, what_do_you_use>>

NotificationPriority == 5

\* _load_tracking: the default when there is no tracking file
EmptyTracking == [deployed_comments |-> <<>>, triggered_notifications |-> <<>>]
LoadTracking(file) == IF IsNone(file) THEN EmptyTracking ELSE The(file)

\* What the last call on the tracker returned
NoSniperResult == [op |-> "none", notification |-> None, notifications |-> <<>>]

\* The record deploy_sniper_comment builds; it has no triggered_at key yet
Deployment(t, post_id, comment_id, comment_text, subreddit, triggers) ==
    [post_id |-> post_id, comment_id |-> comment_id,
     comment_text |-> comment_text, subreddit |-> subreddit,
     triggers |-> triggers, deployed_at |-> IsoFormat(t),
     status |-> "monitoring", op_replied |-> FALSE, triggered_at |-> None]

\* deploy_sniper_comment, with the arguments post_id, comment_id, subreddit
\* and triggers in the record d
DeploySniperCommentState(tr, t, d, comment_text) ==
    [tr EXCEPT !.deployed_comments =
        Append(@, Deployment(t, d.post_id, d.comment_id, comment_text,
                             d.subreddit, d.triggers))]

\* check_for_triggers, the search for our comment: the position of the
\* first record of the post that is still monitored, 0 when there is none
MonitorIndex(tr, post_id) ==
    LET found == {i \in DOMAIN tr.deployed_comments :
                      /\ tr.deployed_comments[i].post_id = post_id
                      /\ tr.deployed_comments[i].status = "monitoring"}
    IN IF found = {} THEN 0
       ELSE CHOOSE i \in found : \A j \in found : i <= j

\* new_comment.get('body', '').lower()
CommentText(new_comment) ==
    IF IsNone(new_comment.body) THEN <<>> ELSE Lower(The(new_comment.body))

\* if trigger in comment_text
TriggerIn(trigger, new_comment) == Contains(trigger, CommentText(new_comment))

\* The first comment, in input order, that holds a trigger, and the first
\* trigger, in configured order, that it holds; None when nothing matches
FirstMatch(triggers, new_comments) ==
    LET hits == {i \in DOMAIN new_comments :
                    \E j \in DOMAIN triggers :
                        TriggerIn(triggers[j], new_comments[i])}
    IN IF hits = {} THEN None
       ELSE LET i == CHOOSE h \in hits : \A k \in hits : h <= k
                js == {j \in DOMAIN triggers :
                           TriggerIn(triggers[j], new_comments[i])}
                j == CHOOSE h \in js : \A k \in js : h <= k
            IN Some([comment |-> i, trigger |-> j])

\* The notification check_for_triggers builds; it has no read and no
\* handled_at key yet
Notification(t, deployed, post_id, new_comment, trigger) ==
    [type |-> "sniper_triggered", priority |-> NotificationPriority,
     post_id |-> post_id, comment_id |-> deployed.comment_id,
     op_comment |-> new_comment, trigger_word |-> trigger,
     subreddit |-> deployed.subreddit, detected_at |-> IsoFormat(t),
     action_needed |-> "Send follow-up with link",
     read |-> None, handled_at |-> None]

\* check_for_triggers: what it returns
CheckForTriggersResult(tr, t, post_id, new_comments) ==
    LET d == MonitorIndex(tr, post_id)
    IN IF d = 0 THEN None
       ELSE LET deployed == tr.deployed_comments[d]
                m == FirstMatch(deployed.triggers, new_comments)
            IN IF IsNone(m) THEN None
               ELSE Some(Notification(t, deployed, post_id,
                                      new_comments[The(m).comment],
                                      deployed.triggers[The(m).trigger]))

\* The update of the record that fired
MarkTriggeredUnstamped(deployed, t) ==
    [deployed EXCEPT !.status = "triggered", !.op_replied = TRUE]

MarkTriggered(deployed, t) ==
    [deployed EXCEPT !.status = "triggered", !.op_replied = TRUE,
                     !.triggered_at = Some(IsoFormat(t))]

\* check_for_triggers: the tracking data it leaves
CheckForTriggersState(tr, t, post_id, new_comments) ==
    LET n == CheckForTriggersResult(tr, t, post_id, new_comments)
        d == MonitorIndex(tr, post_id)
    IN IF IsNone(n) THEN tr
       ELSE [tr EXCEPT
               !.deployed_comments[d] = MarkTriggered(@, t),
               !.triggered_notifications = Append(@, The(n))]

\* get_active_monitors
GetActiveMonitors(tr) ==
    SelectSeq(tr.deployed_comments, LAMBDA c : c.status = "monitoring")

\* mark_notification_read
MarkReadAndExpire(tr, t, notification_id) ==
    [tr EXCEPT
       !.triggered_notifications =
           [i \in DOMAIN @ |->
               IF @[i].post_id = notification_id
               THEN [@[i] EXCEPT !.read = Some(TRUE),
                                 !.handled_at = Some(IsoFormat(t))]
               ELSE @[i]],
       !.deployed_comments =
           [i \in DOMAIN @ |->
               IF @[i].post_id = notification_id /\ @[i].status = "triggered"
               THEN [@[i] EXCEPT !.status = "expired"]
               ELSE @[i]]]

MarkNotificationReadState(tr, t, notification_id) ==
    [tr EXCEPT
       !.triggered_notifications =
           [i \in DOMAIN @ |->
               IF @[i].post_id = notification_id
               THEN [@[i] EXCEPT !.read = Some(TRUE),
                                 !.handled_at = Some(IsoFormat(t))]
               ELSE @[i]]]

\* RedditClient.reply_to_post: the comment id it returns
ReplyToPost(post_id, dry_run) ==
    IF dry_run THEN Some(<<Txt("fake"), Txt("reply")>> \o post_id) ELSE None

----------------------------------------------------------------------------
(* PostFinder, the relevance score (src/post_finder.py)                    *)
(*                                                                         *)
(* Titles, bodies, keywords and the words of the patterns are sequences of *)
(* characters, as the trigger phrases are.                                 *)

\* The words of the high-value patterns
Word ==
    [ alternative |-> <<"a", "l", "t", "e", "r", "n", "a", "t", "i", "v",
        "e">>,
      to |-> <<"t", "o">>,
      better |-> <<"b", "e", "t", "t", "e", "r">>,
      than |-> <<"t", "h", "a", "n">>,
      recommend |-> <<"r", "e", "c", "o", "m", "m", "e", "n", "d">>,
      ation |-> <<"a", "t", "i", "o", "n">>,
      s |-> <<"s">>,
      looking |-> <<"l", "o", "o", "k", "i", "n", "g">>,
      for |-> <<"f", "o", "r">>,
      what |-> <<"w", "h", "a", "t">>,
      do |-> <<"d", "o">>,
      you |-> <<"y", "o", "u">>,
      use |-> <<"u", "s", "e">>,
      any |-> <<"a", "n", "y">>,
      one |-> <<"o", "n", "e">>,
      know |-> <<"k", "n", "o", "w">>,
      suggest |-> <<"s", "u", "g", "g", "e", "s", "t">>,
      help |-> <<"h", "e", "l", "p">>,
      me |-> <<"m", "e">>,
      find |-> <<"f", "i", "n", "d">>,
      switch |-> <<"s", "w", "i", "t", "c", "h">>,
      ing |-> <<"i", "n", "g">>,
      from |-> <<"f", "r", "o", "m">>,
      frustrat |-> <<"f", "r", "u", "s", "t", "r", "a", "t">>,
      ed |-> <<"e", "d">>,
      expensive |-> <<"e", "x", "p", "e", "n", "s", "i", "v", "e">>,
      free |-> <<"f", "r", "e", "e">>,
      option |-> <<"o", "p", "t", "i", "o", "n">>,
      tool |-> <<"t", "o", "o", "l">> ]

\* text.startswith(('how ', 'what ', 'which ', 'any '))
QuestionPrefixes ==
    { <<"h", "o", "w", " ">>,
      <<"w", "h", "a", "t", " ">>,
      <<"w", "h", "i", "c", "h", " ">>,
      <<"a", "n", "y", " ">> }

\* The titles of the posts the platform returns
Titles ==
    { <<"F", "r", "e", "e", " ", "a", "l", "t", "e", "r", "n", "a", "t",
        "i", "v", "e", " ", "t", "o", " ", "O", "t", "t", "e", "r", "?">>,
      <<"w", "h", "a", "t", " ", "a", "p", "p", " ", "f", "o", "r", " ",
        "m", "e", "e", "t", "i", "n", "g", " ", "n", "o", "t", "e", "s">>,
      <<"M", "y", " ", "s", "e", "t", "u", "p">>,
      <<"L", "o", "o", "k", "i", "n", "g", " ", "f", "o", "r", " ", "t",
        "r", "a", "n", "s", "c", "r", "i", "p", "t", "i", "o", "n", " ",
        "h", "e", "l", "p">> }

\* The bodies of the posts; a link post has an empty body
Bodies ==
    { <<"S", "p", "e", "e", "c", "h", " ", "t", "o", " ", "t", "e", "x",
        "t", " ", "i", "s", " ", "s", "l", "o", "w", ",", " ", "e", "x",
        "p", "e", "n", "s", "i", "v", "e", " ", "a", "n", "d", " ", "t",
        "r", "a", "n", "s", "c", "r", "i", "p", "t", "i", "o", "n", " ",
        "c", "r", "a", "s", "h", "e", "s">>,
      <<"i", "t", " ", "i", "s", " ", "s", "l", "o", "w">>,
      <<>> }

\* The product configurations (search_keywords of product.yaml): one
\* without keywords, and one with three primary, three pain-point and one
\* competitor keyword
ProductConfigs ==
    { [primary |-> <<>>, pain_points |-> <<>>, competitor_mentions |-> <<>>],
      [primary |->
          <<<<"T", "r", "a", "n", "s", "c", "r", "i", "p", "t", "i", "o",
              "n">>,
            <<"s", "p", "e", "e", "c", "h", " ", "t", "o", " ", "t", "e",
              "x", "t">>,
            <<"m", "e", "e", "t", "i", "n", "g", " ", "n", "o", "t", "e",
              "s">>>>,
       pain_points |->
          <<<<"s", "l", "o", "w">>,
            <<"e", "x", "p", "e", "n", "s", "i", "v", "e">>,
            <<"c", "r", "a", "s", "h">>>>,
       competitor_mentions |->
          <<<<"O", "t", "t", "e", "r">>>>] }

Min(a, b) == IF a <= b THEN a ELSE b

\* The weights and thresholds of _calculate_relevance
PrimaryPoints == 15
PrimaryCap == 30
PainPoints == 20
PainCap == 40
CompetitorPoints == 25
HighValuePoints == 20
QuestionPoints == 10
HighEngagementComments == 10
HighEngagementPoints == 10
MediumEngagementComments == 5
MediumEngagementPoints == 5
VeryFreshHours == 6
VeryFreshPoints == 15
FreshHours == 24
FreshPoints == 10
DefaultAgeHours == 24
MaxScore == 100

\* Regular expressions: \s and \w on one character
IsSpace(c) == c \in {" ", "\t", "\n", "\r"}
WordChars ==
    {LowerCaseLetters[i] : i \in DOMAIN LowerCaseLetters}
    \cup {UpperCaseLetters[i] : i \in DOMAIN UpperCaseLetters}
    \cup {"0", "1", "2", "3", "4", "5", "6", "7", "8", "9", "_"}
IsWordChar(c) == c \in WordChars

\* A position of a text is the index of the next character to read.
\* \b holds at a position when exactly one of the characters around it is
\* a word character.
WordBoundary(text, i) ==
    LET before == i > 1 /\ IsWordChar(text[i - 1])
        after == i <= Len(text) /\ IsWordChar(text[i])
    IN before # after

\* The positions a sub-pattern can end at when it starts at one of the
\* positions P: \b, a literal word, an optional literal word, \s+
AtBoundary(text, P) == {i \in P : WordBoundary(text, i)}
Literal(text, P, w) ==
    {s + Len(w) : s \in {i \in P : /\ i + Len(w) - 1 <= Len(text)
                                   /\ SubSeq(text, i, i + Len(w) - 1) = w}}
Optional(text, P, w) == P \cup Literal(text, P, w)
Spaces(text, P) ==
    {j \in 2..(Len(text) + 1) :
        \E s \in P : s < j /\ \A k \in s..(j - 1) : IsSpace(text[k])}

\* \b followed by a literal word, starting anywhere in the text
WordStart(text, w) ==
    {s + Len(w) : s \in {i \in 1..Len(text) :
                             /\ text[i] = w[1]
                             /\ i + Len(w) - 1 <= Len(text)
                             /\ SubSeq(text, i, i + Len(w) - 1) = w
                             /\ WordBoundary(text, i)}}

\* high_value_regex.search(text): one disjunct per pattern of
\* high_value_patterns, in their order
HighValueSearch(text) ==
    \/ AtBoundary(text, Literal(text,
           Spaces(text, WordStart(text, Word.alternative)), Word.to)) # {}
    \/ AtBoundary(text, Literal(text,
           Spaces(text, WordStart(text, Word.better)), Word.than)) # {}
    \/ AtBoundary(text, Optional(text,
           Optional(text, WordStart(text, Word.recommend), Word.ation), Word.s)) # {}
    \/ AtBoundary(text, Literal(text,
           Spaces(text, WordStart(text, Word.looking)), Word.for)) # {}
    \/ AtBoundary(text, Literal(text, Spaces(text, Literal(text,
           Spaces(text, Literal(text, Spaces(text,
               WordStart(text, Word.what)), Word.do)), Word.you)), Word.use)) # {}
    \/ LET verb == Spaces(text, Optional(text, WordStart(text, Word.any), Word.one))
       IN AtBoundary(text, Literal(text, verb, Word.know)
                           \cup Literal(text, verb, Word.suggest)
                           \cup Literal(text, verb, Word.recommend)) # {}
    \/ LET help == Spaces(text, WordStart(text, Word.help))
       IN AtBoundary(text, Literal(text,
              help \cup Spaces(text, Literal(text, help, Word.me)),
              Word.find)) # {}
    \/ AtBoundary(text, Literal(text, Spaces(text,
           Optional(text, WordStart(text, Word.switch), Word.ing)), Word.from)) # {}
    \/ LET stem == WordStart(text, Word.frustrat)
       IN AtBoundary(text, Literal(text, stem, Word.ed)
                           \cup Literal(text, stem, Word.ing)) # {}
    \/ AtBoundary(text, WordStart(text, Word.expensive)) # {}
    \/ LET free == Spaces(text, WordStart(text, Word.free))
       IN AtBoundary(text, Literal(text, free, Word.alternative)
                           \cup Literal(text, free, Word.option)
                           \cup Literal(text, free, Word.tool)) # {}

\* str.startswith of a tuple of prefixes
StartsWith(text, prefixes) ==
    \E p \in prefixes : Len(p) <= Len(text) /\ SubSeq(text, 1, Len(p)) = p

\* _build_keyword_sets: the lower-cased keywords of each list, as sets
Range(seq) == {seq[i] : i \in DOMAIN seq}
BuildKeywordSets(search_keywords) ==
    [primary_keywords |-> {Lower(kw) : kw \in Range(search_keywords.primary)},
     pain_point_keywords |->
         {Lower(kw) : kw \in Range(search_keywords.pain_points)},
     competitor_keywords |->
         {Lower(kw) : kw \in Range(search_keywords.competitor_mentions)}]

\* sum(1 for kw in keywords if kw in text)
CountMatches(keywords, text) ==
    Cardinality({kw \in keywords : Contains(kw, text)})

\* f"{post['title']} {post['body']}".lower()
TextOf(post) == Lower(post.title \o <<" ">> \o post.body)

\* post.get('age_hours', 24)
AgeOf(post) ==
    IF IsNone(post.age_hours) THEN DefaultAgeHours ELSE The(post.age_hours)

\* score += points; reasons.append(f"{rule}: +{points}")
AddPoints(acc, rule, points) ==
    [score |-> acc.score + points,
     reasons |-> Append(acc.reasons, [rule |-> rule, points |-> points])]

\* score = min(score, 100)
UncappedScore(score) == score

CapScore(score) == Min(score, MaxScore)

\* The body of _calculate_relevance from given values of score and reasons
RelevanceFrom(f, post, score, reasons) ==
    LET text == TextOf(post)
        primary_matches == CountMatches(f.primary_keywords, text)
        pain_matches == CountMatches(f.pain_point_keywords, text)
        competitor_matches == CountMatches(f.competitor_keywords, text)
        age == AgeOf(post)
        a0 == [score |-> score, reasons |-> reasons]
        a1 == IF primary_matches # 0
              THEN AddPoints(a0, "primary_keywords",
                       Min(primary_matches * PrimaryPoints, PrimaryCap))
              ELSE a0
        a2 == IF pain_matches # 0
              THEN AddPoints(a1, "pain_point_keywords",
                       Min(pain_matches * PainPoints, PainCap))
              ELSE a1
        a3 == IF competitor_matches # 0
              THEN AddPoints(a2, "competitor_mention", CompetitorPoints)
              ELSE a2
        a4 == IF HighValueSearch(text)
              THEN AddPoints(a3, "high_value_pattern", HighValuePoints)
              ELSE a3
        a5 == IF \/ Contains(<<"?">>, post.title)
                 \/ StartsWith(text, QuestionPrefixes)
              THEN AddPoints(a4, "question_format", QuestionPoints)
              ELSE a4
        a6 == IF post.num_comments >= HighEngagementComments
              THEN AddPoints(a5, "high_engagement", HighEngagementPoints)
              ELSE IF post.num_comments >= MediumEngagementComments
              THEN AddPoints(a5, "medium_engagement", MediumEngagementPoints)
              ELSE a5
        a7 == IF age < VeryFreshHours
              THEN AddPoints(a6, "very_fresh", VeryFreshPoints)
              ELSE IF age < FreshHours
              THEN AddPoints(a6, "fresh", FreshPoints)
              ELSE a6
    IN [score |-> CapScore(a7.score), reasons |-> a7.reasons]

\* A scorer that goes on from what the candidate already carries
CalculateRelevanceResumed(f, post) ==
    IF IsNone(post.relevance_score) THEN RelevanceFrom(f, post, 0, <<>>)
    ELSE RelevanceFrom(f, post, The(post.relevance_score),
                       The(post.relevance_reasons))

\* _calculate_relevance: score = 0, reasons = []
CalculateRelevance(f, post) == RelevanceFrom(f, post, 0, <<>>)

\* The candidates: age_hours is None when the post carries no such key
CommentCounts == {4, 5, 8, 10}
Ages == {None, Some(3), Some(6), Some(12), Some(24)}

Candidate(id, title, body, num_comments, age_hours) ==
    [id |-> id, title |-> title, body |-> body,
     num_comments |-> num_comments, age_hours |-> age_hours,
     relevance_score |-> None, relevance_reasons |-> None]

\* What the last call of _calculate_relevance returned, and for which
\* candidate
NoScore == [index |-> 0, score |-> 0, reasons |-> <<>>]

----------------------------------------------------------------------------
(* PostFinder.filter_posts                                                 *)

\* The defaults of the optimization section of reddit.yaml, and of
\* max_for_llm
MinPostScore == 2
MaxPostAgeHours == 72
RelevanceThreshold == 30
DefaultMaxForLlm == 10
NoAgeHours == 0

\* A post is a record whose fields are the keys of the dictionary; a post
\* without a key is a record without that field
Has(post, key) == key \in DOMAIN post
Without(post, key) == [k \in DOMAIN post \ {key} |-> post[k]]

\* {**post, 'skip_reason': reason}
Skipped(post, reason) == [skip_reason |-> reason] @@ post

\* post.get('age_hours', 0)
FilterAgeOf(post) ==
    IF IsNone(post.age_hours) THEN NoAgeHours ELSE The(post.age_hours)

\* The first key that the body of the loop reads with post[key] and that
\* the post does not have, for a post that reaches _calculate_relevance
MissingForRelevance(post) ==
    IF ~Has(post, "title") THEN Some("title")
    ELSE IF ~Has(post, "body") THEN Some("body")
    ELSE IF ~Has(post, "num_comments") THEN Some("num_comments")
    ELSE None

\* scored_posts.sort(key=lambda p: p['relevance_score'], reverse=True): the
\* sort is stable, posts of equal score keep their order
InsertByScore(sorted, post) ==
    LET before == {i \in DOMAIN sorted :
                      The(sorted[i].relevance_score)
                          >= The(post.relevance_score)}
        k == Cardinality(before)
    IN SubSeq(sorted, 1, k) \o <<post>> \o SubSeq(sorted, k + 1, Len(sorted))

RECURSIVE SortByScoreFrom(_, _)
SortByScoreFrom(sorted, rest) ==
    IF rest = <<>> THEN sorted
    ELSE SortByScoreFrom(InsertByScore(sorted, Head(rest)), Tail(rest))

\* A list left in the order of the search
KeepOrder(scored_posts) == scored_posts

SortByScore(scored_posts) == SortByScoreFrom(<<>>, scored_posts)

\* scored_posts[:n] and scored_posts[n:]
Take(seq, n) == SubSeq(seq, 1, Min(n, Len(seq)))
Drop(seq, n) == SubSeq(seq, Min(n, Len(seq)) + 1, Len(seq))

\* if post['id'] in self.replied_posts
NeverReplied(replied, post) == FALSE

AlreadyReplied(replied, post) == post.id \in replied

\* post['relevance_score'], post['relevance_reasons'] = r, then the
\* relevance threshold: posts[i] itself is changed, skipped or not
Enriched(acc, i, r) ==
    LET enriched == [acc.posts[i] EXCEPT
                        !.relevance_score = Some(r.score),
                        !.relevance_reasons = Some(r.reasons)]
    IN IF r.score < RelevanceThreshold
       THEN [acc EXCEPT
                !.posts[i] = enriched,
                !.skipped =
                    Append(@, Skipped(enriched,
                        <<"low_relevance", r.score,
                          RelevanceThreshold>>))]
       ELSE [acc EXCEPT
                !.posts[i] = enriched,
                !.scored_posts = Append(@, enriched)]

\* Mutant: the age of a post is checked before its popularity
FilterOneAgeFirst(f, replied, acc, i) ==
    LET post == acc.posts[i]
    IN IF ~Has(post, "id") THEN [acc EXCEPT !.raised = Some("id")]
       ELSE IF AlreadyReplied(replied, post)
       THEN [acc EXCEPT !.skipped =
                Append(@, Skipped(post, <<"already_replied">>))]
       ELSE IF ~Has(post, "score") THEN [acc EXCEPT !.raised = Some("score")]
       ELSE IF FilterAgeOf(post) > MaxPostAgeHours
       THEN [acc EXCEPT !.skipped =
                Append(@, Skipped(post,
                    <<"too_old", The(post.age_hours), MaxPostAgeHours>>))]
       ELSE IF post.score < MinPostScore
       THEN [acc EXCEPT !.skipped =
                Append(@, Skipped(post,
                    <<"low_score", post.score, MinPostScore>>))]
       ELSE IF ~IsNone(MissingForRelevance(post))
       THEN [acc EXCEPT !.raised = MissingForRelevance(post)]
       ELSE Enriched(acc, i, CalculateRelevance(f, post))

\* One pass of the loop of filter_posts over posts[i], from the posts as
\* the earlier passes left them. raised names the key of a KeyError.
FilterOne(f, replied, acc, i) ==
    LET post == acc.posts[i]
    IN IF ~Has(post, "id") THEN [acc EXCEPT !.raised = Some("id")]
       ELSE IF AlreadyReplied(replied, post)
       THEN [acc EXCEPT !.skipped =
                Append(@, Skipped(post, <<"already_replied">>))]
       ELSE IF ~Has(post, "score") THEN [acc EXCEPT !.raised = Some("score")]
       ELSE IF post.score < MinPostScore
       THEN [acc EXCEPT !.skipped =
                Append(@, Skipped(post,
                    <<"low_score", post.score, MinPostScore>>))]
       ELSE IF FilterAgeOf(post) > MaxPostAgeHours
       THEN [acc EXCEPT !.skipped =
                Append(@, Skipped(post,
                    <<"too_old", The(post.age_hours), MaxPostAgeHours>>))]
       ELSE IF ~IsNone(MissingForRelevance(post))
       THEN [acc EXCEPT !.raised = MissingForRelevance(post)]
       ELSE Enriched(acc, i, CalculateRelevance(f, post))

\* for post in posts: the loop ends at the first KeyError
RECURSIVE FilterLoop(_, _, _, _)
FilterLoop(f, replied, acc, i) ==
    IF i > Len(acc.posts) \/ ~IsNone(acc.raised) THEN acc
    ELSE FilterLoop(f, replied, FilterOne(f, replied, acc, i), i + 1)

\* After the loop: scored_posts.sort(...), and the three lists returned
Returned(acc, max_for_llm) ==
    LET sorted == SortByScore(acc.scored_posts)
    IN [posts |-> acc.posts,
        results |->
            IF ~IsNone(acc.raised)
            THEN [op |-> "filter_posts", raised |-> acc.raised,
                  for_llm |-> <<>>, maybe |-> <<>>, skipped |-> <<>>]
            ELSE [op |-> "filter_posts", raised |-> None,
                  for_llm |-> Take(sorted, max_for_llm),
                  maybe |-> Drop(sorted, max_for_llm),
                  skipped |-> acc.skipped]]

\* filter_posts(posts, max_for_llm) over the posts found: what it returns
\* or raises, and the posts as it leaves them
FilterPosts(f, replied, found, max_for_llm) ==
    Returned(FilterLoop(f, replied,
                 [posts |-> found, skipped |-> <<>>,
                  scored_posts |-> <<>>, raised |-> None], 1),
             max_for_llm)

----------------
(* PostFinder.categorize_post                                              *)

\* complaint_words
ComplaintWords ==
    { <<"h", "a", "t", "e">>,
      <<"t", "e", "r", "r", "i", "b", "l", "e">>,
      <<"a", "w", "f", "u", "l">>,
      <<"e", "x", "p", "e", "n", "s", "i", "v", "e">>,
      <<"b", "r", "o", "k", "e", "n">>,
      <<"d", "o", "e", "s", "n", "'", "t", " ", "w", "o", "r", "k">>,
      <<"s", "t", "o", "p", "p", "e", "d", " ", "w", "o", "r", "k", "i",
        "n", "g">>,
      <<"f", "r", "u", "s", "t", "r", "a", "t", "e", "d">>,
      <<"a", "n", "n", "o", "y", "i", "n", "g">> }

\* rec_patterns: the texts that the six expressions match. The expressions
\* are searched in the lower-cased text without re.IGNORECASE, so the 'I'
\* of 'what (do you|should I) use' stays a capital letter.
RecPatterns ==
    { <<"r", "e", "c", "o", "m", "m", "e", "n", "d">>,
      <<"l", "o", "o", "k", "i", "n", "g", " ", "f", "o", "r">>,
      <<"s", "u", "g", "g", "e", "s", "t">>,
      <<"s", "u", "g", "g", "e", "s", "t", "i", "o", "n">>,
      <<"w", "h", "a", "t", " ", "d", "o", " ", "y", "o", "u", " ", "u",
        "s", "e">>,
      <<"w", "h", "a", "t", " ", "s", "h", "o", "u", "l", "d", " ", "I",
        " ", "u", "s", "e">>,
      <<"b", "e", "s", "t", " ", "t", "o", "o", "l">>,
      <<"b", "e", "s", "t", " ", "a", "p", "p">>,
      <<"b", "e", "s", "t", " ", "s", "o", "f", "t", "w", "a", "r", "e">>,
      <<"a", "l", "t", "e", "r", "n", "a", "t", "i", "v", "e", " ", "t",
        "o">> }

\* tech_patterns: the texts that the five expressions match
TechPatterns ==
    { <<"h", "o", "w", " ", "d", "o">>,
      <<"h", "o", "w", " ", "c", "a", "n">>,
      <<"h", "o", "w", " ", "t", "o">>,
      <<"i", "s", " ", "i", "t", " ", "a", " ", "w", "a", "y">>,
      <<"i", "s", " ", "i", "t", " ", "p", "o", "s", "s", "i", "b", "l",
        "e">>,
      <<"i", "s", " ", "t", "h", "e", "r", "e", " ", "a", " ", "w", "a",
        "y">>,
      <<"i", "s", " ", "t", "h", "e", "r", "e", " ", "p", "o", "s", "s",
        "i", "b", "l", "e">>,
      <<"h", "e", "l", "p", " ", "w", "i", "t", "h">>,
      <<"i", "s", "s", "u", "e", " ", "w", "i", "t", "h">>,
      <<"p", "r", "o", "b", "l", "e", "m", " ", "w", "i", "t", "h">> }

\* any(w in text for w in words); any(re.search(p, text) for p in patterns)
AnyIn(words, text) == \E w \in words : Contains(w, text)

HasCompetitor(f, text) == AnyIn(f.competitor_keywords, text)
HasComplaint(text) == AnyIn(ComplaintWords, text)
RecommendationIntent(text) == AnyIn(RecPatterns, text)
TechnicalQuestion(text) == AnyIn(TechPatterns, text)

\* A categorizer that looks at the kind of question first
CategorizeQuestionFirst(f, post) ==
    LET text == TextOf(post)
    IN IF TechnicalQuestion(text) THEN "technical_question"
       ELSE IF RecommendationIntent(text) THEN "recommendation_request"
       ELSE IF HasCompetitor(f, text) /\ HasComplaint(text)
       THEN "competitor_complaint"
       ELSE "general_discussion"

\* categorize_post(post)
CategorizePost(f, post) ==
    LET text == TextOf(post)
    IN IF HasCompetitor(f, text) /\ HasComplaint(text)
       THEN "competitor_complaint"
       ELSE IF RecommendationIntent(text) THEN "recommendation_request"
       ELSE IF TechnicalQuestion(text) THEN "technical_question"
       ELSE "general_discussion"

\* The titles of the posts that are categorized
CategorizedTitles ==
    Titles \cup
    { <<"H", "o", "w", " ", "t", "o", " ", "r", "e", "c", "o", "m", "m",
        "e", "n", "d", " ", "O", "t", "t", "e", "r">>,
      <<"H", "e", "l", "p", " ", "w", "i", "t", "h", " ", "m", "y", " ",
        "n", "o", "t", "e", "s">>,
      <<"W", "h", "a", "t", " ", "s", "h", "o", "u", "l", "d", " ", "I",
        " ", "u", "s", "e", "?">> }


----------------------------------------------------------------------------
(* DuplicateDetector                                                       *)

\* A ratio is kept as a numerator and a denominator: similarity_threshold
\* (0.6) and the overlap limit of is_duplicate (0.7)
SimilarityThreshold == [num |-> 6, den |-> 10]
OverlapThreshold == [num |-> 7, den |-> 10]

\* str.strip(): without the white space at both ends
RECURSIVE StripLeft(_)
StripLeft(s) ==
    IF s # <<>> /\ IsSpace(Head(s)) THEN StripLeft(Tail(s)) ELSE s

RECURSIVE StripRight(_)
StripRight(s) ==
    IF s # <<>> /\ IsSpace(s[Len(s)])
    THEN StripRight(SubSeq(s, 1, Len(s) - 1))
    ELSE s

Strip(s) == StripRight(StripLeft(s))

\* SequenceMatcher: the length of the longest common run of a from i and
\* of b from j, inside a[..ahi] and b[..bhi]
RECURSIVE RunLength(_, _, _, _, _, _)
RunLength(a, i, ahi, b, j, bhi) ==
    IF i <= ahi /\ j <= bhi /\ a[i] = b[j]
    THEN 1 + RunLength(a, i + 1, ahi, b, j + 1, bhi)
    ELSE 0

\* SequenceMatcher.find_longest_match without junk (no character of a
\* text shorter than 200 characters is set aside): the longest block
\* a[i..i+k-1] = b[j..j+k-1] inside a[alo..ahi] and b[blo..bhi]; of the
\* longest ones the one that starts earliest in a, and of those the one
\* that starts earliest in b
FindLongestMatch(a, alo, ahi, b, blo, bhi) ==
    LET starts == {ij \in (alo..ahi) \X (blo..bhi) : a[ij[1]] = b[ij[2]]}
        size(ij) == RunLength(a, ij[1], ahi, b, ij[2], bhi)
        longest == {ij \in starts : \A o \in starts : size(o) <= size(ij)}
        first == CHOOSE ij \in longest :
                     \A o \in longest :
                         \/ ij[1] < o[1]
                         \/ ij[1] = o[1] /\ ij[2] <= o[2]
    IN IF starts = {} THEN [i |-> alo, j |-> blo, k |-> 0]
       ELSE [i |-> first[1], j |-> first[2], k |-> size(first)]

\* SequenceMatcher.get_matching_blocks: the total size of the blocks, the
\* longest match first and then the matches to its left and to its right
RECURSIVE MatchingSize(_, _, _, _, _, _)
MatchingSize(a, alo, ahi, b, blo, bhi) ==
    IF alo > ahi \/ blo > bhi THEN 0
    ELSE LET m == FindLongestMatch(a, alo, ahi, b, blo, bhi)
         IN IF m.k = 0 THEN 0
            ELSE m.k + MatchingSize(a, alo, m.i - 1, b, blo, m.j - 1)
                     + MatchingSize(a, m.i + m.k, ahi, b, m.j + m.k, bhi)

\* SequenceMatcher(None, t1, t2).ratio(): 2.0 * matches / length, and 1.0
\* when both texts are empty
Ratio(t1, t2) ==
    IF Len(t1) + Len(t2) = 0 THEN [num |-> 1, den |-> 1]
    ELSE [num |-> 2 * MatchingSize(t1, 1, Len(t1), t2, 1, Len(t2)),
          den |-> Len(t1) + Len(t2)]

\* A similarity that ignores the texts
NoSimilarity(text1, text2) == [num |-> 0, den |-> 1]

\* calculate_similarity(text1, text2)
CalculateSimilarity(text1, text2) ==
    Ratio(Strip(Lower(text1)), Strip(Lower(text2)))

\* ratio > limit
Exceeds(ratio, limit) == ratio.num * limit.den > limit.num * ratio.den

\* The regular expressions of extract_key_points. A match is the text it
\* captures, text[from..to-1], and the position at which it ends.
ProductNames ==
    { <<"o", "t", "t", "e", "r", ".", "a", "i">>,
      <<"d", "e", "s", "c", "r", "i", "p", "t">>,
      <<"w", "h", "i", "s", "p", "e", "r">>,
      <<"n", "o", "t", "i", "o", "n">>,
      <<"o", "b", "s", "i", "d", "i", "a", "n">> }

ToolWords ==
    { <<"a", "p", "p">>,
      <<"t", "o", "o", "l">>,
      <<"s", "o", "f", "t", "w", "a", "r", "e">> }

w_use == <<"u", "s", "e">>
w_try == <<"t", "r", "y">>

\* (?:i|we), (?:use|using|try) and (?:and|to|for)
TechniqueHeads ==
    [i_we |-> { <<"i">>,
     <<"w", "e">> },
     use_try |-> { <<"u", "s", "e">>,
           <<"u", "s", "i", "n", "g">>,
           <<"t", "r", "y">> }]

TechniqueTails ==
    { <<"a", "n", "d">>,
      <<"t", "o">>,
      <<"f", "o", "r">> }

\* Lengths that extract_key_points and is_duplicate compare with or cut at
MinTechniqueLength == 5
KeyPointLength == 50
SimilarToLength == 200

\* [a-z] under re.IGNORECASE
LetterChars == DOMAIN LowerOf \cup {LowerOf[u] : u \in DOMAIN LowerOf}
IsLetter(c) == c \in LetterChars

\* A literal word under re.IGNORECASE
LiteralIgnoringCase(text, P, w) ==
    {s + Len(w) : s \in {i \in P : /\ i + Len(w) - 1 <= Len(text)
                                   /\ Lower(SubSeq(text, i, i + Len(w) - 1))
                                          = w}}

\* [a-z]{least,} from one of the positions P
Letters(text, P, least) ==
    {j \in 2..(Len(text) + 1) :
        \E s \in P : /\ j - s >= least
                     /\ \A k \in s..(j - 1) : IsLetter(text[k])}

MaxOf(S) == CHOOSE x \in S : \A y \in S : y <= x
MinOf(S) == CHOOSE x \in S : \A y \in S : x <= y

\* \b(otter\.ai|descript|whisper|notion|obsidian)\b at position s
MatchProduct(text, s) ==
    LET ends == AtBoundary(text,
                    UNION {LiteralIgnoringCase(text, {s}, w) :
                              w \in ProductNames})
    IN IF WordBoundary(text, s) /\ ends # {}
       THEN Some([from |-> s, to |-> MaxOf(ends), end |-> MaxOf(ends)])
       ELSE None

\* [A-Z][a-z]+(?:\s+[A-Z][a-z]+)*: the positions after one more word, and
\* after any number of words (the quantifiers are greedy)
RECURSIVE WordChain(_, _)
WordChain(text, W) ==
    LET more == W \cup Letters(text, Spaces(text, W), 2)
    IN IF more = W THEN W ELSE WordChain(text, more)

\* \b([A-Z][a-z]+(?:\s+[A-Z][a-z]+)*)\s+(?:app|tool|software)\b at s
MatchNamed(text, s) ==
    LET words == WordChain(text, Letters(text, {s}, 2))
        suffix(w) == AtBoundary(text,
                         UNION {LiteralIgnoringCase(text,
                                    Spaces(text, {w}), k) : k \in ToolWords})
        ends == {w \in words : suffix(w) # {}}
    IN IF WordBoundary(text, s) /\ ends # {}
       THEN Some([from |-> s, to |-> MaxOf(ends),
                  end |-> MaxOf(suffix(MaxOf(ends)))])
       ELSE None

\* \buse\s+([a-z]+(?:\s+[a-z]+){0,2})\b at s, and the same with try
MatchVerb(text, s, verb) ==
    LET g == Spaces(text, LiteralIgnoringCase(text, {s}, verb))
        w1 == Letters(text, g, 1)
        w2 == Letters(text, Spaces(text, w1), 1)
        w3 == Letters(text, Spaces(text, w2), 1)
        ends == AtBoundary(text, w1 \cup w2 \cup w3)
    IN IF WordBoundary(text, s) /\ ends # {}
       THEN Some([from |-> MaxOf(g), to |-> MaxOf(ends),
                  end |-> MaxOf(ends)])
       ELSE None

\* (?:i|we)\s+(.*?)\s+(?:and|to|for) at s, and the same with the other
\* heads and tails: the first \s+ is greedy and the group is lazy
MatchTechnique(text, s, heads) ==
    LET starts == Spaces(text, UNION {Literal(text, {s}, h) : h \in heads})
        tail(q) == UNION {Literal(text, Spaces(text, {q}), t) :
                             t \in TechniqueTails}
        groups(p) == {q \in p..(Len(text) + 1) :
                         /\ \A k \in p..(q - 1) : text[k] # "\n"
                         /\ tail(q) # {}}
        from == {p \in starts : groups(p) # {}}
    IN IF from # {}
       THEN LET p == MaxOf(from)
                q == MinOf(groups(p))
            IN Some([from |-> p, to |-> q, end |-> MaxOf(tail(q))])
       ELSE None

MatchAt(pattern, text, s) ==
    CASE pattern = "product" -> MatchProduct(text, s)
      [] pattern = "named" -> MatchNamed(text, s)
      [] pattern = "use" -> MatchVerb(text, s, w_use)
      [] pattern = "try" -> MatchVerb(text, s, w_try)
      [] pattern = "i_we" -> MatchTechnique(text, s, TechniqueHeads.i_we)
      [] pattern = "use_try" ->
             MatchTechnique(text, s, TechniqueHeads.use_try)

\* re.findall(pattern, text): the groups of the matches from left to
\* right, each search going on where the last match ended
RECURSIVE FindAllFrom(_, _, _)
\* The group of the match m, then the matches after it
GroupAndRest(pattern, text, m) ==
    <<SubSeq(text, m.from, m.to - 1)>> \o FindAllFrom(pattern, text, m.end)

\* found holds the positions at or after pos where the pattern matches:
\* the search stops at the leftmost
FirstAt(pattern, text, found) ==
    IF found = {} THEN <<>>
    ELSE GroupAndRest(pattern, text,
                      The(MatchAt(pattern, text, MinOf(found))))

FindAllFrom(pattern, text, pos) ==
    FirstAt(pattern, text,
            {s \in pos..Len(text) : ~IsNone(MatchAt(pattern, text, s))})

FindAll(pattern, text) == FindAllFrom(pattern, text, 1)

\* [m[:50] for m in matches if len(m) > 5]
RECURSIVE LongEnough(_)
LongEnough(matches) ==
    IF matches = <<>> THEN <<>>
    ELSE (IF Len(Head(matches)) > MinTechniqueLength
          THEN <<Take(Head(matches), KeyPointLength)>>
          ELSE <<>>) \o LongEnough(Tail(matches))

\* [p.strip() for p in key_points if p.strip()]
RECURSIVE StripAll(_)
StripAll(key_points) ==
    IF key_points = <<>> THEN <<>>
    ELSE (IF Strip(Head(key_points)) # <<>>
          THEN <<Strip(Head(key_points))>>
          ELSE <<>>) \o StripAll(Tail(key_points))

\* extract_key_points(text)
ExtractKeyPoints(text) ==
    StripAll(FindAll("product", text) \o FindAll("named", text)
             \o FindAll("use", text) \o FindAll("try", text)
             \o LongEnough(FindAll("i_we", Lower(text)))
             \o LongEnough(FindAll("use_try", Lower(text))))

\* An overlap counted over the distinct key points of the reply
OverlapOfDistinct(common_points, proposed_points) ==
    [num |-> Cardinality(common_points),
     den |-> Cardinality(Range(proposed_points))]

\* overlap_ratio = len(common_points) / len(proposed_points)
OverlapRatio(common_points, proposed_points) ==
    [num |-> Cardinality(common_points), den |-> Len(proposed_points)]

\* comment.get('body', '')
BodyOf(comment) == IF IsNone(comment.body) THEN <<>> ELSE The(comment.body)

NotDuplicate ==
    [is_duplicate |-> FALSE, reason |-> "unique", similar_to |-> None,
     similarity_score |-> [num |-> 0, den |-> 1], common_points |-> {}]

\* Mutant: the key points are compared before the text similarity
ComparePointsFirst(proposed_points, comment_text, similarity, common_points) ==
    LET overlap_ratio == OverlapRatio(common_points, proposed_points)
    IN IF /\ Cardinality(common_points) > 0
          /\ Len(proposed_points) > 0
          /\ Exceeds(overlap_ratio, OverlapThreshold)
       THEN Some([is_duplicate |-> TRUE, reason |-> "key_points",
                  similar_to |-> Some(Take(comment_text, SimilarToLength)),
                  similarity_score |-> overlap_ratio,
                  common_points |-> common_points])
       ELSE IF Exceeds(similarity, SimilarityThreshold)
       THEN Some([is_duplicate |-> TRUE, reason |-> "too_similar",
                  similar_to |-> Some(Take(comment_text, SimilarToLength)),
                  similarity_score |-> similarity,
                  common_points |-> {}])
       ELSE None

\* One pass of the loop of is_duplicate: the verdict it returns, or None
\* when the loop goes on
Compare(proposed_points, comment_text, similarity, common_points) ==
    LET overlap_ratio == OverlapRatio(common_points, proposed_points)
    IN IF Exceeds(similarity, SimilarityThreshold)
       THEN Some([is_duplicate |-> TRUE, reason |-> "too_similar",
                  similar_to |-> Some(Take(comment_text, SimilarToLength)),
                  similarity_score |-> similarity,
                  common_points |-> {}])
       ELSE IF /\ Cardinality(common_points) > 0
               /\ Len(proposed_points) > 0
               /\ Exceeds(overlap_ratio, OverlapThreshold)
       THEN Some([is_duplicate |-> TRUE, reason |-> "key_points",
                  similar_to |-> Some(Take(comment_text, SimilarToLength)),
                  similarity_score |-> overlap_ratio,
                  common_points |-> common_points])
       ELSE None

\* similarity and common_points of one comment, as the loop computes them
CheckComment(proposed_reply, proposed_points, comment) ==
    Compare(proposed_points, BodyOf(comment),
            CalculateSimilarity(proposed_reply, BodyOf(comment)),
            Range(proposed_points)
                \cap Range(ExtractKeyPoints(BodyOf(comment))))

\* is_duplicate(proposed_reply, existing_comments)
RECURSIVE IsDuplicateFrom(_, _, _)
\* The first verdict returned ends the loop
ReturnOrGoOn(v, proposed_reply, proposed_points, existing_comments) ==
    IF ~IsNone(v) THEN The(v)
    ELSE IsDuplicateFrom(proposed_reply, proposed_points,
                         Tail(existing_comments))

IsDuplicateFrom(proposed_reply, proposed_points, existing_comments) ==
    IF existing_comments = <<>> THEN NotDuplicate
    ELSE ReturnOrGoOn(CheckComment(proposed_reply, proposed_points,
                                   Head(existing_comments)),
                      proposed_reply, proposed_points, existing_comments)

IsDuplicate(proposed_reply, existing_comments) ==
    IsDuplicateFrom(proposed_reply, ExtractKeyPoints(proposed_reply),
                    existing_comments)


\* Nothing has been filtered, compared, run or constructed yet
NoResults ==
    [op |-> "none", max_for_llm |-> 0, raised |-> None, for_llm |-> <<>>,
     maybe |-> <<>>, skipped |-> <<>>]
NoVerdict == [op |-> "none"]
NoRun ==
    [workflow |-> "none", status |-> "none", todo |-> <<>>, failed |-> None,
     errors |-> <<>>, replies_generated |-> 0]
NotConstructed == [component |-> "none", raised |-> None]

----------------------------------------------------------------------------
Init ==
    /\ now = StartOfRun
    /\ disk \in StateFiles
    /\ state = LoadState(disk)
    /\ ret = NoResult
    /\ ticks = 0
    /\ records = 0
    /\ posts = 0
    /\ tracking_file = None
    /\ tracking = LoadTracking(tracking_file)
    /\ sret = NoSniperResult
    /\ finder = BuildKeywordSets(
           [primary |-> <<>>, pain_points |-> <<>>,
            competitor_mentions |-> <<>>])
    /\ candidates = <<>>
    /\ scored = NoScore
    /\ replied_posts = {}
    /\ results = NoResults
    /\ verdict = NoVerdict
    /\ run = NoRun
    /\ constructed = NotConstructed
    /\ peer = None
    /\ replied_file = None

\* The clock moves on between two calls
Tick(limit, advances) ==
    /\ ticks < limit
    /\ \E d \in advances : now' = now + d
    /\ ticks' = ticks + 1
    /\ UNCHANGED <<state, disk, ret, records, posts>>
    /\ UNCHANGED <<tracking, tracking_file, sret>>
    /\ UNCHANGED <<finder, candidates, scored>>
    /\ UNCHANGED <<replied_posts, results, verdict, run, constructed, peer,
                   replied_file>>

CallRecordAction(limit, subreddits) ==
    \E s \in subreddits :
        /\ records < limit
        /\ records' = records + 1
        /\ state' = RecordActionState(state, now, s)
        /\ disk' = Some(state')
        /\ ret' = NoResult
        /\ UNCHANGED <<now, ticks, posts>>
        /\ UNCHANGED <<tracking, tracking_file, sret>>
        /\ UNCHANGED <<finder, candidates, scored>>
        /\ UNCHANGED <<replied_posts, results, verdict, run, constructed, peer,
                       replied_file>>

CallResetConsecutive ==
    /\ state' = ResetConsecutiveState(state)
    /\ disk' = Some(state')
    /\ ret' = NoResult
    /\ UNCHANGED <<now, ticks, records, posts>>
    /\ UNCHANGED <<tracking, tracking_file, sret>>
    /\ UNCHANGED <<finder, candidates, scored>>
    /\ UNCHANGED <<replied_posts, results, verdict, run, constructed, peer,
                   replied_file>>

CallQueueAction(limit) ==
    \E s \in QueueSubreddits, p \in Priorities :
        /\ posts < limit
        /\ posts' = posts + 1
        /\ state' = QueueActionState(state, now, NewAction(s, posts + 1, p))
        /\ disk' = Some(state')
        /\ ret' = NoResult
        /\ UNCHANGED <<now, ticks, records>>
        /\ UNCHANGED <<tracking, tracking_file, sret>>
        /\ UNCHANGED <<finder, candidates, scored>>
        /\ UNCHANGED <<replied_posts, results, verdict, run, constructed, peer,
                       replied_file>>

CallGetNextAction ==
    /\ state' = GetNextActionState(state, now)
    /\ disk' = IF GetNextActionSaves(state, now) THEN Some(state') ELSE disk
    /\ ret' = [NoResult EXCEPT !.op = "get_next_action",
                               !.action = GetNextActionResult(state, now)]
    /\ UNCHANGED <<now, ticks, records, posts>>
    /\ UNCHANGED <<tracking, tracking_file, sret>>
    /\ UNCHANGED <<finder, candidates, scored>>
    /\ UNCHANGED <<replied_posts, results, verdict, run, constructed, peer,
                   replied_file>>

Next ==
    \/ Tick(MaxTicks, Advances)
    \/ CallRecordAction(MaxRecords, Subreddits)
    \/ CallResetConsecutive

Spec == Init /\ [][Next]_vars

\* can_post_now(s) reads the state and the clock
CallCanPostNow ==
    \E s \in QueueSubreddits :
        /\ ret' = CanPostNow(state, now, s)
        /\ UNCHANGED <<now, state, disk, ticks, records, posts>>
        /\ UNCHANGED <<tracking, tracking_file, sret>>
        /\ UNCHANGED <<finder, candidates, scored>>
        /\ UNCHANGED <<replied_posts, results, verdict, run, constructed, peer,
                       replied_file>>

\* get_queue_status() returns the queue, its length and two fields of the
\* state
GetQueueStatus(st) ==
    [op |-> "get_queue_status",
     queue_size |-> Len(st.action_queue),
     actions |-> st.action_queue,
     last_action |-> st.last_action_time,
     consecutive_count |-> st.consecutive_count] @@ NoResult

CallGetQueueStatus ==
    /\ ret' = GetQueueStatus(state)
    /\ UNCHANGED <<now, state, disk, ticks, records, posts>>
    /\ UNCHANGED <<tracking, tracking_file, sret>>
    /\ UNCHANGED <<finder, candidates, scored>>
    /\ UNCHANGED <<replied_posts, results, verdict, run, constructed, peer,
                   replied_file>>

\* Every operation of the engine, the queue included
NextQueue ==
    \/ Tick(MaxQueueTicks, QueueAdvances)
    \/ CallRecordAction(MaxQueueRecords, QueueSubreddits)
    \/ CallResetConsecutive
    \/ CallQueueAction(MaxQueued)
    \/ CallGetNextAction

SpecQueue == Init /\ [][NextQueue]_vars

\* The operations of the engine at one time of the clock, the two that
\* only read included
NextFrame ==
    \/ CallRecordAction(MaxQueueRecords, QueueSubreddits)
    \/ CallResetConsecutive
    \/ CallQueueAction(MaxQueued)
    \/ CallGetNextAction
    \/ CallCanPostNow
    \/ CallGetQueueStatus

SpecFrame == Init /\ [][NextFrame]_vars

\* The clock of a process that goes on calling datetime.now(): it moves on
\* by forty minutes while the cooldown since the last recorded action has
\* not passed, and then by half a day until the day has changed as well;
\* after that no test of can_post_now depends on it any more
SinceLast(st, t) == t - FromIsoFormat(The(st.last_action_time))
ReopenAdvances(st, t) ==
    IF SinceLast(st, t) < consecutive_cooldown_minutes * SecondsPerMinute
    THEN {40 * SecondsPerMinute}
    ELSE {SecondsPerDay \div 2}

ClockAdvances ==
    /\ ~IsNone(state.last_action_time)
    /\ \/ SinceLast(state, now)
            < consecutive_cooldown_minutes * SecondsPerMinute
       \/ Strftime(now).day <= The(state.last_action_time).date
    /\ \E d \in ReopenAdvances(state, now) : now' = now + d
    /\ UNCHANGED <<state, disk, ret, ticks, records, posts>>
    /\ UNCHANGED <<tracking, tracking_file, sret>>
    /\ UNCHANGED <<finder, candidates, scored>>
    /\ UNCHANGED <<replied_posts, results, verdict, run, constructed, peer,
                   replied_file>>

NextReopen ==
    \/ ClockAdvances
    \/ CallRecordAction(MaxReopenRecords, QueueSubreddits)
    \/ CallResetConsecutive

\* The clock keeps advancing
SpecReopen == Init /\ [][NextReopen]_vars /\ WF_vars(ClockAdvances)

\* A caller that works the queue off: it calls get_next_action and, when
\* an action comes back, carries it out and calls record_action for its
\* subreddit; the actions it has been handed are kept in results.actions
InitDispatch ==
    /\ now = StartOfRun
    /\ disk \in StateFiles
    /\ state = LoadState(disk)
    /\ ret = NoResult
    /\ ticks = 0
    /\ records = 0
    /\ posts = 0
    /\ tracking_file = None
    /\ tracking = LoadTracking(tracking_file)
    /\ sret = NoSniperResult
    /\ finder = BuildKeywordSets(
           [primary |-> <<>>, pain_points |-> <<>>,
            competitor_mentions |-> <<>>])
    /\ candidates = <<>>
    /\ scored = NoScore
    /\ replied_posts = {}
    /\ results = [op |-> "dispatch", actions |-> <<>>]
    /\ verdict = NoVerdict
    /\ run = NoRun
    /\ constructed = NotConstructed
    /\ peer = None
    /\ replied_file = None

DispatchNext ==
    \E a \in {GetNextActionResult(state, now)} :
        /\ state' = IF IsNone(a) THEN GetNextActionState(state, now)
                     ELSE RecordActionState(GetNextActionState(state, now),
                                            now, The(a).subreddit)
        /\ disk' = IF IsNone(a) THEN disk ELSE Some(state')
        /\ ret' = [NoResult EXCEPT !.op = "get_next_action", !.action = a]
        /\ results' = IF IsNone(a) THEN results
                       ELSE [results EXCEPT !.actions = Append(@, The(a))]
        /\ records' = IF IsNone(a) THEN records ELSE records + 1
        /\ UNCHANGED <<now, ticks, posts>>
        /\ UNCHANGED <<tracking, tracking_file, sret>>
        /\ UNCHANGED <<finder, candidates, scored>>
        /\ UNCHANGED <<replied_posts, verdict, run, constructed, peer,
                       replied_file>>

\* The actions are queued before the first of them is handed out
QueueBeforeDispatch == records = 0 /\ CallQueueAction(MaxDispatchQueued)

NextDispatch ==
    \/ QueueBeforeDispatch
    \/ DispatchNext
    \/ ClockAdvances

\* get_next_action is called again and again while the clock advances
SpecDispatch ==
    /\ InitDispatch
    /\ [][NextDispatch]_vars
    /\ WF_vars(DispatchNext)
    /\ WF_vars(ClockAdvances)

----------------------------------------------------------------------------
(* The orchestrator's loop over the posts of a run                         *)

\* can_post_now approves: the loop body goes on to the platform calls
RunGateApproved ==
    \E s \in Subreddits :
        /\ CanPostNow(state, now, s).can_post
        /\ ret' = CanPostNow(state, now, s)
        /\ UNCHANGED <<now, state, disk, ticks, records, posts>>
        /\ UNCHANGED <<tracking, tracking_file, sret>>
        /\ UNCHANGED <<finder, candidates, scored>>
        /\ UNCHANGED <<replied_posts, results, verdict, run, constructed, peer,
                       replied_file>>

\* can_post_now refuses: the post is queued and the loop continues
RunGateRefused ==
    \E s \in Subreddits :
        /\ ~CanPostNow(state, now, s).can_post
        /\ posts < MaxRunPosts
        /\ posts' = posts + 1
        /\ state' = QueueActionState(state, now,
                        NewAction(s, posts + 1, Some(OrchestratorPriority)))
        /\ disk' = Some(state')
        /\ ret' = NoResult
        /\ UNCHANGED <<now, ticks, records>>
        /\ UNCHANGED <<tracking, tracking_file, sret>>
        /\ UNCHANGED <<finder, candidates, scored>>
        /\ UNCHANGED <<replied_posts, results, verdict, run, constructed, peer,
                       replied_file>>

\* The approved post is dropped: a duplicate, a failed validation, a dry run
RunSkip ==
    /\ ret.op = "can_post_now" /\ ret.can_post
    /\ ret' = NoResult
    /\ UNCHANGED <<now, state, disk, ticks, records, posts>>
    /\ UNCHANGED <<tracking, tracking_file, sret>>
    /\ UNCHANGED <<finder, candidates, scored>>
    /\ UNCHANGED <<replied_posts, results, verdict, run, constructed, peer,
                   replied_file>>

\* The approved post is replied to and the action recorded
RunRecord ==
    /\ ret.op = "can_post_now" /\ ret.can_post
    /\ records' = records + 1
    /\ state' = RecordActionState(state, now, ret.subreddit)
    /\ disk' = Some(state')
    /\ ret' = NoResult
    /\ UNCHANGED <<now, ticks, posts>>
    /\ UNCHANGED <<tracking, tracking_file, sret>>
    /\ UNCHANGED <<finder, candidates, scored>>
    /\ UNCHANGED <<replied_posts, results, verdict, run, constructed, peer,
                   replied_file>>

NextRun ==
    \/ Tick(MaxRunTicks, Advances)
    \/ RunGateApproved
    \/ RunGateRefused
    \/ RunSkip
    \/ RunRecord

SpecRun == Init /\ [][NextRun]_vars

----------------------------------------------------------------------------
(* The calls on the tracker                                                *)

\* Post identifiers a caller passes; None is Python's None
PostIds == {None, Some(<<Txt("p1")>>), Some(<<Txt("p2")>>)}

\* The arguments of the direct calls of deploy_sniper_comment
DeployInputs ==
    { [post_id |-> Some(<<Txt("p1")>>), comment_id |-> Some(<<Txt("c1")>>),
       subreddit |-> <<Txt("productivity")>>, triggers |-> <<link_lower>>],
      [post_id |-> Some(<<Txt("p1")>>), comment_id |-> Some(<<Txt("c2")>>),
       subreddit |-> <<Txt("productivity")>>, triggers |-> <<link_capital>>],
      [post_id |-> Some(<<Txt("p2")>>), comment_id |-> None,
       subreddit |-> <<Txt("productivity")>>, triggers |-> <<link_lower>>],
      [post_id |-> None, comment_id |-> Some(<<Txt("c3")>>),
       subreddit |-> <<Txt("productivity")>>, triggers |-> <<link_lower>>] }

\* The lists of new comments the platform returns for a post
CommentLists ==
    { <<>>,
      <<[body |-> None]>>,
      <<[body |-> Some(thanks)]>>,
      <<[body |-> Some(link_lower)]>>,
      <<[body |-> Some(link_upper)]>>,
      <<[body |-> Some(thanks)], [body |-> Some(link_upper)]>> }

SniperReply == "sniper_reply"

CallDeploySniperComment ==
    \E d \in DeployInputs :
        /\ Len(tracking.deployed_comments) < MaxDeployed
        /\ tracking' = DeploySniperCommentState(tracking, now, d, SniperReply)
        /\ tracking_file' = Some(tracking')
        /\ sret' = [NoSniperResult EXCEPT !.op = "deploy_sniper_comment"]
        /\ UNCHANGED <<now, state, disk, ret, ticks, records, posts>>
        /\ UNCHANGED <<finder, candidates, scored>>
        /\ UNCHANGED <<replied_posts, results, verdict, run, constructed, peer,
                       replied_file>>

CallCheckForTriggers ==
    \E p \in PostIds, cs \in CommentLists :
        /\ tracking' = CheckForTriggersState(tracking, now, p, cs)
        /\ tracking_file' =
               IF IsNone(CheckForTriggersResult(tracking, now, p, cs))
               THEN tracking_file ELSE Some(tracking')
        /\ sret' = [NoSniperResult EXCEPT
                      !.op = "check_for_triggers",
                      !.notification =
                          CheckForTriggersResult(tracking, now, p, cs)]
        /\ UNCHANGED <<now, state, disk, ret, ticks, records, posts>>
        /\ UNCHANGED <<finder, candidates, scored>>
        /\ UNCHANGED <<replied_posts, results, verdict, run, constructed, peer,
                       replied_file>>

CallMarkNotificationRead ==
    \E p \in PostIds :
        /\ tracking' = MarkNotificationReadState(tracking, now, p)
        /\ tracking_file' = Some(tracking')
        /\ sret' = [NoSniperResult EXCEPT !.op = "mark_notification_read"]
        /\ UNCHANGED <<now, state, disk, ret, ticks, records, posts>>
        /\ UNCHANGED <<finder, candidates, scored>>
        /\ UNCHANGED <<replied_posts, results, verdict, run, constructed, peer,
                       replied_file>>

NextSniper ==
    \/ CallDeploySniperComment
    \/ CallCheckForTriggers
    \/ CallMarkNotificationRead

SpecSniper == Init /\ [][NextSniper]_vars

----------------------------------------------------------------------------
(* The orchestrator's use of the tracker                                   *)

\* The posts the search of a run returns
FoundPosts ==
    { [id |-> <<Txt("p1")>>, subreddit |-> <<Txt("productivity")>>],
      [id |-> <<Txt("p2")>>, subreddit |-> <<Txt("ask"), Txt("reddit")>>] }

\* The arguments run_guerrilla_marketing passes to deploy_sniper_comment
\* in a live run: the comment id is what reply_to_post returned
LiveDeployInput(post) ==
    [post_id |-> Some(post.id), comment_id |-> ReplyToPost(post.id, FALSE),
     subreddit |-> post.subreddit, triggers |-> OrchestratorTriggers]

\* run_guerrilla_marketing, the loop body of a live run with the sniper
\* strategy, for a post the gate approves: the reply is posted, the comment
\* deployed for monitoring and the action recorded
RunSniperLive ==
    \E post \in FoundPosts :
        /\ Len(tracking.deployed_comments) < MaxDeployed
        /\ CanPostNow(state, now, post.subreddit).can_post
        /\ tracking' = DeploySniperCommentState(tracking, now,
                           LiveDeployInput(post), SniperReply)
        /\ tracking_file' = Some(tracking')
        /\ sret' = [NoSniperResult EXCEPT !.op = "deploy_sniper_comment"]
        /\ records' = records + 1
        /\ state' = RecordActionState(state, now, post.subreddit)
        /\ disk' = Some(state')
        /\ ret' = NoResult
        /\ UNCHANGED <<now, ticks, posts>>
        /\ UNCHANGED <<finder, candidates, scored>>
        /\ UNCHANGED <<replied_posts, results, verdict, run, constructed, peer,
                       replied_file>>

\* monitor_sniper_triggers, the loop over the monitors that were active
\* when it started, each checked against the comments fetched for its post
RECURSIVE MonitorFrom(_, _, _, _)
MonitorFrom(tr, t, monitors, fetched) ==
    IF monitors = <<>> THEN tr
    ELSE MonitorFrom(CheckForTriggersState(tr, t, Head(monitors).post_id,
                                           fetched[Head(monitors).post_id]),
                     t, Tail(monitors), fetched)

\* The notifications the loop collects
RECURSIVE MonitorNotifications(_, _, _, _)
MonitorNotifications(tr, t, monitors, fetched) ==
    IF monitors = <<>> THEN <<>>
    ELSE LET p == Head(monitors).post_id
             n == CheckForTriggersResult(tr, t, p, fetched[p])
         IN n \o MonitorNotifications(
                     CheckForTriggersState(tr, t, p, fetched[p]),
                     t, Tail(monitors), fetched)

MonitorSniperTriggers ==
    \E fetched \in [{Some(post.id) : post \in FoundPosts} -> CommentLists] :
        /\ tracking' = MonitorFrom(tracking, now,
                                   GetActiveMonitors(tracking), fetched)
        /\ tracking_file' =
               IF tracking' = tracking THEN tracking_file ELSE Some(tracking')
        /\ sret' = [NoSniperResult EXCEPT
                      !.op = "monitor_sniper_triggers",
                      !.notifications =
                          MonitorNotifications(tracking, now,
                              GetActiveMonitors(tracking), fetched)]
        /\ UNCHANGED <<now, state, disk, ret, ticks, records, posts>>
        /\ UNCHANGED <<finder, candidates, scored>>
        /\ UNCHANGED <<replied_posts, results, verdict, run, constructed, peer,
                       replied_file>>

NextSniperRun ==
    \/ Tick(MaxSniperTicks, QueueAdvances)
    \/ RunSniperLive
    \/ MonitorSniperTriggers

SpecSniperRun == Init /\ [][NextSniperRun]_vars

----------------------------------------------------------------------------
(* The scoring of the candidates of a run                                  *)

\* The run holds MaxCandidates candidates with the same input fields and
\* different identifiers
InitScorer ==
    /\ now = StartOfRun
    /\ disk = None
    /\ state = LoadState(disk)
    /\ ret = NoResult
    /\ ticks = 0
    /\ records = 0
    /\ posts = 0
    /\ tracking_file = None
    /\ tracking = LoadTracking(tracking_file)
    /\ sret = NoSniperResult
    /\ finder \in {BuildKeywordSets(c) : c \in ProductConfigs}
    /\ \E title \in Titles, body \in Bodies,
          num_comments \in CommentCounts, age_hours \in Ages :
          candidates = [id \in 1..MaxCandidates |->
                           Candidate(id, title, body, num_comments, age_hours)]
    /\ scored = NoScore
    /\ replied_posts = {}
    /\ results = NoResults
    /\ verdict = NoVerdict
    /\ run = NoRun
    /\ constructed = NotConstructed
    /\ peer = None
    /\ replied_file = None

\* filter_posts scores a candidate and enriches it in place
CallCalculateRelevance ==
    \E i \in DOMAIN candidates :
        LET r == CalculateRelevance(finder, candidates[i])
        IN /\ candidates' = [candidates EXCEPT
                                ![i].relevance_score = Some(r.score),
                                ![i].relevance_reasons = Some(r.reasons)]
           /\ scored' = [index |-> i, score |-> r.score, reasons |-> r.reasons]
           /\ UNCHANGED <<now, state, disk, ret, ticks, records, posts>>
           /\ UNCHANGED <<tracking, tracking_file, sret, finder>>
           /\ UNCHANGED <<replied_posts, results, verdict, run, constructed, peer,
                          replied_file>>

NextScorer == CallCalculateRelevance

SpecScorer == InitScorer /\ [][NextScorer]_vars

----------------------------------------------------------------------------
(* The filtering of the posts of a search                                  *)

\* A post as the search returns it: the candidate's fields and its score
\* (up-votes) on the platform
FoundPost(id, score, title, num_comments, age_hours) ==
    [score |-> score] @@ Candidate(id, title, <<>>, num_comments, age_hours)

\* The keys that filter_posts and _calculate_relevance read with post[key]
RequiredKeys == {"id", "score", "title", "body", "num_comments"}

\* The posts of a search, before their identifiers are given: link posts
\* that are popular and very fresh, one that is unpopular, one that is too
\* old, one that is both, and posts that lack one of the required keys
WellFormedPosts ==
    {FoundPost(0, 5, title, 10, Some(3)) : title \in Titles}
    \cup {FoundPost(0, 1, title, 10, Some(3)) :
             title \in {t \in Titles : Len(t) < 10}}
    \cup {FoundPost(0, 5, title, 10, Some(80)) :
             title \in {t \in Titles : Len(t) < 10}}
    \cup {FoundPost(0, 1, title, 10, Some(80)) :
             title \in {t \in Titles : Len(t) < 10}}

MalformedPosts ==
    {Without(FoundPost(0, 5, title, 10, Some(3)), key) :
        title \in {t \in Titles : Len(t) < 10}, key \in RequiredKeys}

\* The lists of at most n posts; the identifier of a post is its place
RECURSIVE PostLists(_, _)
PostLists(kinds, n) ==
    IF n = 0 THEN {<<>>}
    ELSE LET shorter == PostLists(kinds, n - 1)
         IN shorter \cup
            {Append(l,
                 IF Has(k, "id") THEN [k EXCEPT !.id = Len(l) + 1] ELSE k) :
                 l \in {x \in shorter : Len(x) = n - 1}, k \in kinds}

MaxForLlms == {1, DefaultMaxForLlm}

InitFilter ==
    /\ now = StartOfRun
    /\ disk = None
    /\ state = LoadState(disk)
    /\ ret = NoResult
    /\ ticks = 0
    /\ records = 0
    /\ posts = 0
    /\ tracking_file = None
    /\ tracking = LoadTracking(tracking_file)
    /\ sret = NoSniperResult
    /\ finder = BuildKeywordSets(
           CHOOSE c \in ProductConfigs : c.primary # <<>>)
    /\ candidates \in PostLists(WellFormedPosts \cup MalformedPosts, MaxFound)
    /\ scored = NoScore
    /\ replied_posts \in {{}, {1}, {MaxFound}}
    /\ results = NoResults
    /\ verdict = NoVerdict
    /\ run = NoRun
    /\ constructed = NotConstructed
    /\ peer = None
    /\ replied_file = None

\* filter_posts(posts, max_for_llm) enriches the posts it scores in place
CallFilterPosts ==
    \E max_for_llm \in MaxForLlms :
        \E r \in {FilterPosts(finder, replied_posts, candidates,
                              max_for_llm)} :
            /\ candidates' = r.posts
            /\ results' = [max_for_llm |-> max_for_llm] @@ r.results
            /\ UNCHANGED <<now, state, disk, ret, ticks, records, posts>>
            /\ UNCHANGED <<tracking, tracking_file, sret, finder, scored>>
            /\ UNCHANGED <<replied_posts, verdict, run, constructed, peer,
                           replied_file>>

NextFilter == CallFilterPosts

SpecFilter == InitFilter /\ [][NextFilter]_vars

----------------------------------------------------------------------------
(* The categorizing of a post                                              *)

InitCategorize ==
    /\ now = StartOfRun
    /\ disk = None
    /\ state = LoadState(disk)
    /\ ret = NoResult
    /\ ticks = 0
    /\ records = 0
    /\ posts = 0
    /\ tracking_file = None
    /\ tracking = LoadTracking(tracking_file)
    /\ sret = NoSniperResult
    /\ finder \in {BuildKeywordSets(c) : c \in ProductConfigs}
    /\ \E title \in CategorizedTitles, body \in Bodies,
          num_comments \in CommentCounts :
          candidates = <<Candidate(1, title, body, num_comments, None)>>
    /\ scored = NoScore
    /\ replied_posts = {}
    /\ results = NoResults
    /\ verdict = NoVerdict
    /\ run = NoRun
    /\ constructed = NotConstructed
    /\ peer = None
    /\ replied_file = None

\* categorize_post(post) reads the post and returns its category
CallCategorizePost ==
    \E i \in DOMAIN candidates :
        /\ results' = [op |-> "categorize_post", index |-> i,
                       category |-> CategorizePost(finder, candidates[i])]
        /\ UNCHANGED <<now, state, disk, ret, ticks, records, posts>>
        /\ UNCHANGED <<tracking, tracking_file, sret>>
        /\ UNCHANGED <<finder, candidates, scored>>
        /\ UNCHANGED <<replied_posts, verdict, run, constructed, peer,
                       replied_file>>

NextCategorize == CallCategorizePost

SpecCategorize == InitCategorize /\ [][NextCategorize]_vars

----------------------------------------------------------------------------
(* The duplicate check of a draft reply                                    *)

\* The draft replies and the bodies of the comments on the post
DetectorTexts ==
    { <<"n", "o", "t", "i", "o", "n">>,
      <<"u", "s", "e", " ", "n", "o", "t", "i", "o", "n">>,
      <<"i", "t", " ", "w", "a", "s", " ", "n", "o", "t", "i", "o", "n",
        " ", "t", "h", "a", "t", " ", "h", "e", "l", "p", "e", "d", " ",
        "m", "e", " ", "t", "h", "e", "n">>,
      <<"W", "o", "r", "k", "s", " ", "f", "i", "n", "e">>,
      <<"w", "o", "r", "k", " ", "f", "i", "n", "e", "d">> }

\* A comment of the post; a comment may have no body
ExistingComments ==
    {[body |-> Some(t)] : t \in DetectorTexts} \cup {[body |-> None]}

\* The lists of at most n comments
RECURSIVE ListsUpTo(_, _)
ListsUpTo(S, n) ==
    IF n = 0 THEN {<<>>}
    ELSE LET shorter == ListsUpTo(S, n - 1)
         IN shorter \cup {Append(l, x) : l \in shorter, x \in S}

\* The draft and the comments of the post are at hand; verdict keeps them
\* next to what is_duplicate returns
InitDetector ==
    /\ now = StartOfRun
    /\ disk = None
    /\ state = LoadState(disk)
    /\ ret = NoResult
    /\ ticks = 0
    /\ records = 0
    /\ posts = 0
    /\ tracking_file = None
    /\ tracking = LoadTracking(tracking_file)
    /\ sret = NoSniperResult
    /\ finder = BuildKeywordSets(
           [primary |-> <<>>, pain_points |-> <<>>,
            competitor_mentions |-> <<>>])
    /\ candidates = <<>>
    /\ scored = NoScore
    /\ replied_posts = {}
    /\ results = NoResults
    /\ \E proposed_reply \in DetectorTexts,
          existing_comments \in ListsUpTo(ExistingComments, MaxExisting) :
          verdict = [op |-> "none", proposed_reply |-> proposed_reply,
                     existing_comments |-> existing_comments]
    /\ run = NoRun
    /\ constructed = NotConstructed
    /\ peer = None
    /\ replied_file = None

\* is_duplicate(proposed_reply, existing_comments)
CallIsDuplicate ==
        /\ verdict' = [op |-> "is_duplicate",
                       proposed_reply |-> verdict.proposed_reply,
                       existing_comments |-> verdict.existing_comments]
                      @@ IsDuplicate(verdict.proposed_reply,
                                     verdict.existing_comments)
        /\ UNCHANGED <<now, state, disk, ret, ticks, records, posts>>
        /\ UNCHANGED <<tracking, tracking_file, sret>>
        /\ UNCHANGED <<finder, candidates, scored>>
        /\ UNCHANGED <<replied_posts, results, run, constructed, peer,
                       replied_file>>

NextDetector == CallIsDuplicate

SpecDetector == InitDetector /\ [][NextDetector]_vars

----------------------------------------------------------------------------
(* The two workflows and the failures of their collaborators               *)

\* MavenOrchestrator.run_guerrilla_marketing and Maven.guerrilla_marketing
Workflows == {"orchestrator", "maven"}

\* A call of a collaborator (the platform client, the reply generator, the
\* language model) returns or raises
CollaboratorOutcomes == {"returns", "raises"}

\* The state file of a run that recorded an action five minutes ago
RecentRunState ==
    RecordActionState(EmptyState, StartOfRun - 5 * SecondsPerMinute,
                      <<Txt("productivity")>>)

\* The workflow has searched and filtered, and starts its loop over the
\* posts kept (todo); failed is the post whose processing raised last
InitWorkflow ==
    /\ now = StartOfRun
    /\ disk \in StateFiles \cup {Some(RecentRunState)}
    /\ state = LoadState(disk)
    /\ ret = NoResult
    /\ ticks = 0
    /\ records = 0
    /\ posts = 0
    /\ tracking_file = None
    /\ tracking = LoadTracking(tracking_file)
    /\ sret = NoSniperResult
    /\ finder = BuildKeywordSets(
           [primary |-> <<>>, pain_points |-> <<>>,
            competitor_mentions |-> <<>>])
    /\ candidates = <<>>
    /\ scored = NoScore
    /\ replied_posts = {}
    /\ results = NoResults
    /\ verdict = NoVerdict
    /\ \E workflow \in Workflows, todo \in ListsUpTo(FoundPosts, MaxItems) :
          run = [NoRun EXCEPT !.workflow = workflow, !.status = "running",
                              !.todo = todo]
    /\ constructed = NotConstructed
    /\ peer = None
    /\ replied_file = None

\* run_guerrilla_marketing in a dry run, one pass of 'for post in
\* high_quality': a post the gate refuses is queued; for a post it approves
\* the collaborators are called, outside any try statement, so that an
\* exception of theirs leaves the method
OrchestratorCandidate ==
    /\ run.workflow = "orchestrator"
    /\ run.status = "running"
    /\ run.todo # <<>>
    /\ LET post == Head(run.todo)
       IN IF ~CanPostNow(state, now, post.subreddit).can_post
          THEN /\ state' = QueueActionState(state, now,
                               NewAction(post.subreddit, Len(run.todo),
                                         Some(OrchestratorPriority)))
               /\ disk' = Some(state')
               /\ run' = [run EXCEPT !.todo = Tail(@), !.failed = None]
          ELSE /\ \E outcome \in CollaboratorOutcomes :
                      IF outcome = "raises"
                      THEN run' = [run EXCEPT !.status = "raised",
                                              !.failed = Some(post.id)]
                      ELSE run' = [run EXCEPT
                                      !.todo = Tail(@),
                                      !.failed = None,
                                      !.replies_generated = @ + 1]
               /\ UNCHANGED <<state, disk>>
    /\ UNCHANGED <<now, ret, ticks, records, posts>>
    /\ UNCHANGED <<tracking, tracking_file, sret>>
    /\ UNCHANGED <<finder, candidates, scored>>
    /\ UNCHANGED <<replied_posts, results, verdict, constructed, peer,
                   replied_file>>

\* guerrilla_marketing in a dry run, one pass of 'for post in
\* filtered['for_llm']': _process_guerrilla_post is called inside a try
\* statement whose handler appends to results['errors']
MavenCandidate ==
    /\ run.workflow = "maven"
    /\ run.status = "running"
    /\ run.todo # <<>>
    /\ LET post == Head(run.todo)
       IN \E outcome \in CollaboratorOutcomes :
              IF outcome = "raises"
              THEN run' = [run EXCEPT !.todo = Tail(@),
                                      !.failed = Some(post.id),
                                      !.errors = Append(@, post.id)]
              ELSE run' = [run EXCEPT !.todo = Tail(@),
                                      !.failed = None,
                                      !.replies_generated = @ + 1]
    /\ UNCHANGED <<now, state, disk, ret, ticks, records, posts>>
    /\ UNCHANGED <<tracking, tracking_file, sret>>
    /\ UNCHANGED <<finder, candidates, scored>>
    /\ UNCHANGED <<replied_posts, results, verdict, constructed, peer,
                   replied_file>>

\* The loop is over and the workflow returns its results
ReturnResults ==
    /\ run.status = "running"
    /\ run.todo = <<>>
    /\ run' = [run EXCEPT !.status = "returned", !.failed = None]
    /\ UNCHANGED <<now, state, disk, ret, ticks, records, posts>>
    /\ UNCHANGED <<tracking, tracking_file, sret>>
    /\ UNCHANGED <<finder, candidates, scored>>
    /\ UNCHANGED <<replied_posts, results, verdict, constructed, peer,
                   replied_file>>

NextWorkflow ==
    \/ OrchestratorCandidate
    \/ MavenCandidate
    \/ ReturnResults

SpecWorkflow == InitWorkflow /\ [][NextWorkflow]_vars

----------------------------------------------------------------------------
(* The construction of the components over their files                     *)

\* The content of a file that json.load cannot parse
Unparseable == [unparseable |-> TRUE]

\* with open(file) as f: json.load(f): the exception it raises, None when
\* it returns the document
LoadRaises(file) ==
    IF IsNone(file) THEN Some("FileNotFoundError")
    ELSE IF The(file) = Unparseable THEN Some("JSONDecodeError")
    ELSE None

\* except FileNotFoundError, the only handler of the three loaders: the
\* exception that leaves the loader
Uncaught(exception) ==
    IF exception = Some("FileNotFoundError") THEN None ELSE exception

\* _load_replied_posts: set(data.get('replied_ids', [])), or set() when
\* there is no file
LoadRepliedPosts(file) ==
    IF IsNone(file) THEN {}
    ELSE IF Has(The(file), "replied_ids") THEN Range(The(file).replied_ids)
    ELSE {}

\* The files the components are constructed over: none, one that an
\* earlier run wrote, one that cannot be parsed
PacingFiles == StateFiles \cup {Some(Unparseable)}

TrackingFiles ==
    {None, Some(Unparseable),
     Some(DeploySniperCommentState(EmptyTracking, StartOfRun,
              CHOOSE d \in DeployInputs :
                  ~IsNone(d.post_id) /\ ~IsNone(d.comment_id),
              SniperReply))}

RepliedFiles ==
    {None, Some(Unparseable), Some([replied_ids |-> <<1, 2>>]),
     Some([last_updated |-> StartOfRun])}

\* No component is constructed yet
InitConstruct ==
    /\ now = StartOfRun
    /\ disk \in PacingFiles
    /\ state = EmptyState
    /\ ret = NoResult
    /\ ticks = 0
    /\ records = 0
    /\ posts = 0
    /\ tracking_file \in TrackingFiles
    /\ tracking = EmptyTracking
    /\ sret = NoSniperResult
    /\ finder = BuildKeywordSets(
           [primary |-> <<>>, pain_points |-> <<>>,
            competitor_mentions |-> <<>>])
    /\ candidates = <<>>
    /\ scored = NoScore
    /\ replied_posts = {}
    /\ results = NoResults
    /\ verdict = NoVerdict
    /\ run = NoRun
    /\ constructed = NotConstructed
    /\ peer = None
    /\ replied_file \in RepliedFiles

\* PacingEngine(state_file): self.state = self._load_state()
ConstructPacingEngine ==
    /\ constructed' = [component |-> "PacingEngine",
                       raised |-> Uncaught(LoadRaises(disk))]
    /\ state' = IF IsNone(constructed'.raised) THEN LoadState(disk)
                ELSE state
    /\ UNCHANGED <<now, disk, ret, ticks, records, posts>>
    /\ UNCHANGED <<tracking, tracking_file, sret>>
    /\ UNCHANGED <<finder, candidates, scored>>
    /\ UNCHANGED <<replied_posts, results, verdict, run, peer, replied_file>>

\* SniperStrategy(tracking_file): self.tracking = self._load_tracking()
ConstructSniperStrategy ==
    /\ constructed' = [component |-> "SniperStrategy",
                       raised |-> Uncaught(LoadRaises(tracking_file))]
    /\ tracking' = IF IsNone(constructed'.raised)
                   THEN LoadTracking(tracking_file)
                   ELSE tracking
    /\ UNCHANGED <<now, state, disk, ret, ticks, records, posts>>
    /\ UNCHANGED <<tracking_file, sret>>
    /\ UNCHANGED <<finder, candidates, scored>>
    /\ UNCHANGED <<replied_posts, results, verdict, run, peer, replied_file>>

\* PostFinder(...): self.replied_posts = self._load_replied_posts(path)
ConstructPostFinder ==
    /\ constructed' = [component |-> "PostFinder",
                       raised |-> Uncaught(LoadRaises(replied_file))]
    /\ replied_posts' = IF IsNone(constructed'.raised)
                        THEN LoadRepliedPosts(replied_file)
                        ELSE replied_posts
    /\ UNCHANGED <<now, state, disk, ret, ticks, records, posts>>
    /\ UNCHANGED <<tracking, tracking_file, sret>>
    /\ UNCHANGED <<finder, candidates, scored>>
    /\ UNCHANGED <<results, verdict, run, peer, replied_file>>

NextConstruct ==
    \/ ConstructPacingEngine
    \/ ConstructSniperStrategy
    \/ ConstructPostFinder

SpecConstruct == InitConstruct /\ [][NextConstruct]_vars

----------------------------------------------------------------------------
(* Two PacingEngine instances over one state file                          *)

\* Both instances are constructed before either one mutates the store:
\* each __init__ loads the file once into its own self.state
InitShared ==
    /\ now = StartOfRun
    /\ disk = None
    /\ state = LoadState(disk)
    /\ peer = Some(LoadState(disk))
    /\ ret = NoResult
    /\ ticks = 0
    /\ records = 0
    /\ posts = 0
    /\ tracking_file = None
    /\ tracking = EmptyTracking
    /\ sret = NoSniperResult
    /\ finder = BuildKeywordSets(
           [primary |-> <<>>, pain_points |-> <<>>,
            competitor_mentions |-> <<>>])
    /\ candidates = <<>>
    /\ scored = NoScore
    /\ replied_posts = {}
    /\ results = NoResults
    /\ verdict = NoVerdict
    /\ run = NoRun
    /\ constructed = NotConstructed
    /\ replied_file = None

\* record_action on the second instance: its own self.state is updated
\* and written whole over the file
PeerRecordAction(limit, subreddits) ==
    \E s \in subreddits :
        /\ records < limit
        /\ records' = records + 1
        /\ peer' = Some(RecordActionState(The(peer), now, s))
        /\ disk' = peer'
        /\ UNCHANGED <<now, state, ret, ticks, posts>>
        /\ UNCHANGED <<tracking, tracking_file, sret>>
        /\ UNCHANGED <<finder, candidates, scored>>
        /\ UNCHANGED <<replied_posts, results, verdict, run, constructed,
                       replied_file>>

\* queue_action on the second instance
PeerQueueAction(limit) ==
    \E s \in QueueSubreddits, p \in Priorities :
        /\ posts < limit
        /\ posts' = posts + 1
        /\ peer' = Some(QueueActionState(The(peer), now,
                                         NewAction(s, posts + 1, p)))
        /\ disk' = peer'
        /\ UNCHANGED <<now, state, ret, ticks, records>>
        /\ UNCHANGED <<tracking, tracking_file, sret>>
        /\ UNCHANGED <<finder, candidates, scored>>
        /\ UNCHANGED <<replied_posts, results, verdict, run, constructed,
                       replied_file>>

\* Whole operations of the two instances alternate; none overlaps another
NextShared ==
    \/ CallRecordAction(MaxSharedRecords, QueueSubreddits)
    \/ CallQueueAction(MaxSharedQueued)
    \/ PeerRecordAction(MaxSharedRecords, QueueSubreddits)
    \/ PeerQueueAction(MaxSharedQueued)

SpecShared == InitShared /\ [][NextShared]_vars

----------------------------------------------------------------------------
(* check_for_triggers over several comments and several trigger phrases    *)

\* The trigger lists of the monitored comment
ScanTriggerLists ==
    { <<link_lower, what_app>>, <<what_app, link_lower>>,
      <<link_capital, what_app>>, <<which_tool>> }

\* The new comments of the post; one body holds two of the phrases
ScanComments ==
    { [body |-> Some(thanks)], [body |-> Some(link_upper)],
      [body |-> Some(what_app)],
      [body |-> Some(what_app \o <<" ">> \o link_lower)] }

\* One comment has been deployed on p1 and is monitored
InitScan ==
    /\ now = StartOfRun
    /\ disk = None
    /\ state = LoadState(disk)
    /\ ret = NoResult
    /\ ticks = 0
    /\ records = 0
    /\ posts = 0
    /\ \E triggers \in ScanTriggerLists :
           tracking = DeploySniperCommentState(EmptyTracking, StartOfRun,
                          [post_id |-> Some(<<Txt("p1")>>),
                           comment_id |-> Some(<<Txt("c1")>>),
                           subreddit |-> <<Txt("productivity")>>,
                           triggers |-> triggers], SniperReply)
    /\ tracking_file = Some(tracking)
    /\ sret = NoSniperResult
    /\ finder = BuildKeywordSets(
           [primary |-> <<>>, pain_points |-> <<>>,
            competitor_mentions |-> <<>>])
    /\ candidates = <<>>
    /\ scored = NoScore
    /\ replied_posts = {}
    /\ results = NoResults
    /\ verdict = NoVerdict
    /\ run = NoRun
    /\ constructed = NotConstructed
    /\ peer = None
    /\ replied_file = None

\* check_for_triggers(post_id, new_comments); results keeps the arguments
ScanForTriggers ==
    \E p \in PostIds \ {None}, cs \in ListsUpTo(ScanComments, MaxScanned) :
        /\ tracking' = CheckForTriggersState(tracking, now, p, cs)
        /\ tracking_file' =
               IF IsNone(CheckForTriggersResult(tracking, now, p, cs))
               THEN tracking_file ELSE Some(tracking')
        /\ sret' = [NoSniperResult EXCEPT
                      !.op = "check_for_triggers",
                      !.notification =
                          CheckForTriggersResult(tracking, now, p, cs)]
        /\ results' = [op |-> "check_for_triggers", post_id |-> p,
                       new_comments |-> cs]
        /\ UNCHANGED <<now, state, disk, ret, ticks, records, posts>>
        /\ UNCHANGED <<finder, candidates, scored>>
        /\ UNCHANGED <<replied_posts, verdict, run, constructed, peer,
                       replied_file>>

NextScan == ScanForTriggers

SpecScan == InitScan /\ [][NextScan]_vars

----------------------------------------------------------------------------
(* run_guerrilla_marketing, the steps of one pass of its loop              *)

\* _extract_our_key_points(post)
OurKeyPoints ==
    << <<"l", "o", "c", "a", "l", " ", "p", "r", "o", "c", "e", "s", "s",
         "i", "n", "g">>,
       <<"p", "r", "i", "v", "a", "c", "y", " ", "f", "i", "r", "s", "t">>,
       <<"f", "a", "s", "t", " ", "s", "p", "e", "e", "d">>,
       <<"o", "f", "f", "l", "i", "n", "e", " ", "c", "a", "p", "a", "b",
         "l", "e">>,
       <<"o", "n", "e", "-", "t", "i", "m", "e", " ", "c", "o", "s", "t">> >>

\* ' '.join(points)
RECURSIVE JoinWithSpace(_)
JoinWithSpace(points) ==
    IF points = <<>> THEN <<>>
    ELSE IF Len(points) = 1 THEN Head(points)
    ELSE Head(points) \o <<" ">> \o JoinWithSpace(Tail(points))

\* The comments get_post_with_comments returns for a post: none, one that
\* says something else, one that already says what the draft says
FetchedComments ==
    { <<>>,
      <<[body |-> Some(thanks)]>>,
      <<[body |-> Some(thanks)], [body |-> Some(JoinWithSpace(OurKeyPoints))]>> }

\* max_replies, its default and a smaller one
DefaultMaxReplies == 3
MaxRepliesChoices == {1, DefaultMaxReplies}

\* What the last pass did with its post: the gate's answer, the answer of
\* the duplicate check when the pass came to it, and how the pass ended
NoPass == [post_id |-> None, gate |-> "none", duplicate_check |-> "none",
           outcome |-> "none"]

\* The pass ends with 'continue' after queue_action
PassQueued(r, st, t, post) ==
    [run |-> [r EXCEPT !.todo = Tail(@),
                       !.last = [post_id |-> Some(post.id),
                                 gate |-> "refused",
                                 duplicate_check |-> "none",
                                 outcome |-> "queued"]],
     state |-> QueueActionState(st, t,
                   [type |-> "comment", subreddit |-> post.subreddit,
                    post_id |-> post.id,
                    priority |-> Some(OrchestratorPriority),
                    queued_at |-> None]),
     saved |-> TRUE, deployed |-> FALSE]

\* The pass goes on after the gate has approved: the duplicate check, the
\* validation of the generated reply, then the dispatch of a live run
PassApproved(r, st, t, post, duplicate, should_post) ==
    LET last == [post_id |-> Some(post.id), gate |-> "approved",
                 duplicate_check |->
                     IF duplicate THEN "duplicate" ELSE "cleared",
                 outcome |->
                     IF duplicate THEN "duplicate"
                     ELSE IF ~should_post THEN "invalid"
                     ELSE IF r.dry_run THEN "dry_run" ELSE "posted"]
        live == last.outcome = "posted"
    IN [run |-> [r EXCEPT
                   !.todo = Tail(@),
                   !.last = last,
                   !.duplicates_avoided = IF duplicate THEN @ + 1 ELSE @,
                   !.replies_generated =
                       IF last.outcome \in {"dry_run", "posted"}
                       THEN @ + 1 ELSE @],
        state |-> IF live THEN RecordActionState(st, t, post.subreddit)
                  ELSE st,
        saved |-> live,
        deployed |-> live /\ r.use_sniper_strategy]

\* is_duplicate(' '.join(draft_points), comments) for each list of comments
\* the platform may return: the draft is the same for every post, and the
\* answers are computed once
DuplicateChecks ==
    [comments \in FetchedComments |->
        [op |-> "is_duplicate"]
            @@ IsDuplicate(JoinWithSpace(OurKeyPoints), comments)]

\* One pass of 'for post in high_quality' over the first post left;
\* duplicate_check is what is_duplicate returns if the pass comes to it
Pass(r, st, t, duplicate_check, should_post) ==
    IF ~CanPostNow(st, t, Head(r.todo).subreddit).can_post
    THEN PassQueued(r, st, t, Head(r.todo))
    ELSE PassApproved(r, st, t, Head(r.todo),
                      duplicate_check.is_duplicate, should_post)

\* The loop of a run starts over the posts that filter_posts kept
InitPipeline ==
    /\ now = StartOfRun
    /\ disk \in StateFiles \cup {Some(RecentRunState)}
    /\ state = LoadState(disk)
    /\ ret = NoResult
    /\ ticks = 0
    /\ records = 0
    /\ posts = 0
    /\ tracking_file = None
    /\ tracking = LoadTracking(tracking_file)
    /\ sret = NoSniperResult
    /\ finder = BuildKeywordSets(
           [primary |-> <<>>, pain_points |-> <<>>,
            competitor_mentions |-> <<>>])
    /\ candidates = <<>>
    /\ scored = NoScore
    /\ replied_posts = {}
    /\ results = NoResults
    /\ verdict = DuplicateChecks
    /\ \E dry_run \in BOOLEAN, use_sniper_strategy \in BOOLEAN,
          max_replies \in MaxRepliesChoices,
          todo \in ListsUpTo(FoundPosts, MaxPipelinePosts) :
          run = [status |-> "running", todo |-> todo, dry_run |-> dry_run,
                 use_sniper_strategy |-> use_sniper_strategy,
                 max_replies |-> max_replies, replies_generated |-> 0,
                 duplicates_avoided |-> 0, last |-> NoPass]
    /\ constructed = NotConstructed
    /\ peer = None
    /\ replied_file = None

\* if replies_generated >= max_replies: break, and the results are returned
PipelineBreak ==
    /\ run.status = "running"
    /\ run.todo # <<>>
    /\ run.replies_generated >= run.max_replies
    /\ run' = [run EXCEPT !.status = "returned", !.last = NoPass]
    /\ UNCHANGED <<now, state, disk, ret, ticks, records, posts>>
    /\ UNCHANGED <<tracking, tracking_file, sret>>
    /\ UNCHANGED <<finder, candidates, scored>>
    /\ UNCHANGED <<replied_posts, results, verdict, constructed, peer,
                   replied_file>>

\* One pass of the loop; ret is what can_post_now answered for the post
PipelinePass ==
    /\ run.status = "running"
    /\ run.todo # <<>>
    /\ run.replies_generated < run.max_replies
    /\ \E comments \in FetchedComments, should_post \in BOOLEAN :
         \E r \in {Pass(run, state, now, verdict[comments], should_post)} :
           /\ run' = r.run
           /\ ret' = CanPostNow(state, now, Head(run.todo).subreddit)
           /\ state' = r.state
           /\ disk' = IF r.saved THEN Some(r.state) ELSE disk
           /\ posts' = IF r.run.last.outcome = "queued"
                       THEN posts + 1 ELSE posts
           /\ records' = IF r.run.last.outcome = "posted"
                         THEN records + 1 ELSE records
           /\ tracking' =
                  IF r.deployed
                  THEN DeploySniperCommentState(tracking, now,
                           LiveDeployInput(Head(run.todo)), SniperReply)
                  ELSE tracking
           /\ tracking_file' =
                  IF r.deployed THEN Some(tracking') ELSE tracking_file
    /\ UNCHANGED <<now, ticks, sret>>
    /\ UNCHANGED <<finder, candidates, scored>>
    /\ UNCHANGED <<replied_posts, results, verdict, constructed, peer,
                   replied_file>>

\* The loop is over: the results are returned
PipelineReturn ==
    /\ run.status = "running"
    /\ run.todo = <<>>
    /\ run' = [run EXCEPT !.status = "returned", !.last = NoPass]
    /\ UNCHANGED <<now, state, disk, ret, ticks, records, posts>>
    /\ UNCHANGED <<tracking, tracking_file, sret>>
    /\ UNCHANGED <<finder, candidates, scored>>
    /\ UNCHANGED <<replied_posts, results, verdict, constructed, peer,
                   replied_file>>

NextPipeline ==
    \/ PipelineBreak
    \/ PipelinePass
    \/ PipelineReturn

SpecPipeline == InitPipeline /\ [][NextPipeline]_vars

----------------------------------------------------------------------------
(* One run after the other, over the files the runs before have left       *)

\* list(self.replied_posts): the members of the set in some order
RECURSIVE ListOfSet(_)
ListOfSet(S) ==
    IF S = {} THEN <<>>
    ELSE LET x == CHOOSE y \in S : TRUE
         IN <<x>> \o ListOfSet(S \ {x})

\* save_replied_post: the set with post_id added and the file written
\* from it
SaveRepliedPost(replied, t, post_id) ==
    [replied_posts |-> replied \cup {post_id},
     file |-> Some([replied_ids |-> ListOfSet(replied \cup {post_id}),
                    last_updated |-> IsoFormat(t)])]

\* The posts of the platform that carry a reply of ours: those of the runs
\* that are over, those of the run that is under way
NoReplies == [op |-> "reply_to_post", earlier |-> {}, current |-> {}]

\* The posts a search finds, different ones, that filter_posts does not
\* skip as already replied to, in the order of its for_llm
KeptPosts(replied) ==
    {l \in ListsUpTo({post \in FoundPosts : ~AlreadyReplied(replied, post)},
                     MaxPipelinePosts) :
        \A i, j \in DOMAIN l : l[i] = l[j] => i = j}

NewRun(workflow, dry_run, use_sniper_strategy, todo) ==
    [workflow |-> workflow, status |-> "running", todo |-> todo,
     dry_run |-> dry_run, use_sniper_strategy |-> use_sniper_strategy,
     max_replies |-> DefaultMaxReplies, replies_generated |-> 0,
     duplicates_avoided |-> 0, last |-> NoPass]

InitRuns ==
    /\ now = StartOfRun
    /\ disk = None
    /\ state = LoadState(disk)
    /\ ret = NoResult
    /\ ticks = 0
    /\ records = 0
    /\ posts = 0
    /\ tracking_file = None
    /\ tracking = LoadTracking(tracking_file)
    /\ sret = NoSniperResult
    /\ finder = BuildKeywordSets(
           [primary |-> <<>>, pain_points |-> <<>>,
            competitor_mentions |-> <<>>])
    /\ candidates = <<>>
    /\ scored = NoScore
    /\ replied_posts = {}
    /\ results = NoReplies
    /\ verdict = DuplicateChecks
    /\ \E workflow \in Workflows, dry_run \in BOOLEAN,
          use_sniper_strategy \in BOOLEAN, todo \in KeptPosts({}) :
          run = NewRun(workflow, dry_run, use_sniper_strategy, todo)
    /\ constructed = NotConstructed
    /\ peer = None
    /\ replied_file = None

\* run_guerrilla_marketing, one pass of its loop: the pass of PipelinePass,
\* with the reply that a live run posts kept in results
OrchestratorPass ==
    /\ run.workflow = "orchestrator"
    /\ run.status = "running"
    /\ run.todo # <<>>
    /\ run.replies_generated < run.max_replies
    /\ \E comments \in FetchedComments, should_post \in BOOLEAN :
         \E r \in {Pass(run, state, now, verdict[comments], should_post)} :
           /\ run' = r.run
           /\ ret' = CanPostNow(state, now, Head(run.todo).subreddit)
           /\ state' = r.state
           /\ disk' = IF r.saved THEN Some(r.state) ELSE disk
           /\ posts' = IF r.run.last.outcome = "queued"
                       THEN posts + 1 ELSE posts
           /\ records' = IF r.run.last.outcome = "posted"
                         THEN records + 1 ELSE records
           /\ tracking' =
                  IF r.deployed
                  THEN DeploySniperCommentState(tracking, now,
                           LiveDeployInput(Head(run.todo)), SniperReply)
                  ELSE tracking
           /\ tracking_file' =
                  IF r.deployed THEN Some(tracking') ELSE tracking_file
           /\ results' = IF r.run.last.outcome = "posted"
                         THEN [results EXCEPT
                                  !.current = @ \cup {Head(run.todo).id}]
                         ELSE results
    /\ UNCHANGED <<now, ticks, sret>>
    /\ UNCHANGED <<finder, candidates, scored>>
    /\ UNCHANGED <<replied_posts, verdict, constructed, peer, replied_file>>

\* guerrilla_marketing, one pass of its loop when no collaborator raises:
\* _process_guerrilla_post validates the generated reply and, in a live
\* run, posts it and calls save_replied_post
MavenPass ==
    /\ run.workflow = "maven"
    /\ run.status = "running"
    /\ run.todo # <<>>
    /\ run.replies_generated < run.max_replies
    /\ \E should_post \in BOOLEAN :
         LET post == Head(run.todo)
             live == should_post /\ ~run.dry_run
             saved == SaveRepliedPost(replied_posts, now, post.id)
         IN /\ run' = [run EXCEPT
                          !.todo = Tail(@),
                          !.replies_generated =
                              IF should_post THEN @ + 1 ELSE @,
                          !.last = [post_id |-> Some(post.id),
                                    gate |-> "none",
                                    duplicate_check |-> "none",
                                    outcome |->
                                        IF ~should_post THEN "invalid"
                                        ELSE IF run.dry_run THEN "dry_run"
                                        ELSE "posted"]]
            /\ replied_posts' =
                   IF live THEN saved.replied_posts ELSE replied_posts
            /\ replied_file' = IF live THEN saved.file ELSE replied_file
            /\ results' = IF live
                          THEN [results EXCEPT !.current = @ \cup {post.id}]
                          ELSE results
    /\ UNCHANGED <<now, state, disk, ret, ticks, records, posts>>
    /\ UNCHANGED <<tracking, tracking_file, sret>>
    /\ UNCHANGED <<finder, candidates, scored>>
    /\ UNCHANGED <<verdict, constructed, peer>>

\* The loop of the run is over
RunReturns ==
    /\ run.status = "running"
    /\ \/ run.todo = <<>>
       \/ run.replies_generated >= run.max_replies
    /\ run' = [run EXCEPT !.status = "returned", !.last = NoPass]
    /\ UNCHANGED <<now, state, disk, ret, ticks, records, posts>>
    /\ UNCHANGED <<tracking, tracking_file, sret>>
    /\ UNCHANGED <<finder, candidates, scored>>
    /\ UNCHANGED <<replied_posts, results, verdict, constructed, peer,
                   replied_file>>

\* A day later a new process runs one of the two workflows, in the same
\* mode: the components load their files, the search finds the posts
\* again and filter_posts skips the ones of the replied-set
LaterRun ==
    /\ run.status = "returned"
    /\ ticks < MaxLaterRuns
    /\ ticks' = ticks + 1
    /\ now' = now + SecondsPerDay
    /\ state' = LoadState(disk)
    /\ tracking' = LoadTracking(tracking_file)
    /\ replied_posts' = LoadRepliedPosts(replied_file)
    /\ results' = [results EXCEPT !.earlier = @ \cup results.current,
                                  !.current = {}]
    /\ \E workflow \in Workflows,
          todo \in KeptPosts(LoadRepliedPosts(replied_file)) :
          run' = NewRun(workflow, run.dry_run, run.use_sniper_strategy, todo)
    /\ ret' = NoResult
    /\ UNCHANGED <<disk, records, posts>>
    /\ UNCHANGED <<tracking_file, sret>>
    /\ UNCHANGED <<finder, candidates, scored>>
    /\ UNCHANGED <<verdict, constructed, peer, replied_file>>

NextRuns ==
    \/ OrchestratorPass
    \/ MavenPass
    \/ RunReturns
    \/ LaterRun

SpecRuns == InitRuns /\ [][NextRuns]_vars


----------------------------------------------------------------------------
(* Vocabulary of the properties                                            *)

Today == now \div SecondsPerDay

\* The date a daily_counts key was written on: its last segment
DateOfKey(k) == k[Len(k)].day

\* The subreddit a daily_counts key was written for
SubredditOfKey(k) == SubSeq(k, 1, Len(k) - 1)

\* Today's count of a subreddit in a state dictionary
CountToday(st, s) == GetCount(st.daily_counts, Append(s, Dat(Today)))

\* Seconds since the last recorded action (only where there is one)
Elapsed(st) ==
    now - (The(st.last_action_time).date * SecondsPerDay
           + The(st.last_action_time).time)

\* The interval in seconds that the claims require for a consecutive count
IntervalFor(count) ==
    IF count >= 3 THEN consecutive_cooldown_minutes * SecondsPerMinute
    ELSE min_delay_minutes * SecondsPerMinute

\* A step that is a call of record_action, and one that records s
RecordStep == records' = records + 1
RecordStepOn(s) == RecordStep /\ state' = RecordActionState(state, now, s)

----------------------------------------------------------------------------
(* C1: under the orchestrator's protocol (record_action only after an      *)
(* approving can_post_now) any two consecutive recorded actions are at     *)
(* least the required interval apart: 10 minutes when consecutive_count    *)
(* was below 3 at the later one, 60 minutes otherwise.                     *)
C1_MinimumInterval ==
    [][ (RecordStep /\ ~IsNone(state.last_action_time))
          => Elapsed(state) >= IntervalFor(state.consecutive_count) ]_vars

\* Two actions recorded in this run, the later one under the cooldown
C1_Witness ==
    /\ records >= 2
    /\ state.consecutive_count >= 4
    /\ state.last_action_time = Some(IsoFormat(now))

(* C2: under the orchestrator's protocol no daily_counts entry ever        *)
(* exceeds max_daily_per_subreddit, whatever the interleaving of           *)
(* subreddits and clock advances between the gate and the record.          *)
C2_DailyQuota ==
    \A k \in DOMAIN state.daily_counts :
        state.daily_counts[k] <= max_daily_per_subreddit

\* A subreddit filled up to the cap by an action recorded in this run
C2_Witness ==
    /\ records >= 1
    /\ state.last_action_time = Some(IsoFormat(now))
    /\ \E s \in Subreddits : CountToday(state, s) = max_daily_per_subreddit

C4_DecisionOrder ==
    \A s \in Subreddits :
        LET r == CanPostNow(state, now, s)
        IN IF CountToday(state, s) >= max_daily_per_subreddit
           THEN /\ ~r.can_post
                /\ r.reason = "Daily limit reached"
                /\ r.next_available
                     = Some([date |-> Today + 1, time |-> 0])
           ELSE IF ~IsNone(state.last_action_time)
                   /\ Elapsed(state) < IntervalFor(state.consecutive_count)
           THEN /\ ~r.can_post
                /\ r.wait_seconds
                     = Some(IntervalFor(state.consecutive_count)
                              - Elapsed(state))
                /\ FromIsoFormat(The(r.next_available))
                     = now - Elapsed(state)
                         + IntervalFor(state.consecutive_count)
           ELSE /\ r.can_post
                /\ r.wait_seconds = Some(0)

(* C5: consecutive_count changes only by +1 in record_action and to 0 in   *)
(* reset_consecutive; queue_action, get_next_action (and the gate check    *)
(* inside it) and clock advances of any length leave it alone.             *)
C5_ConsecutiveOnlyResetExplicitly ==
    [][ \/ /\ state'.consecutive_count = state.consecutive_count
           /\ ~RecordStep
        \/ /\ state'.consecutive_count = state.consecutive_count + 1
           /\ RecordStep
        \/ /\ state'.consecutive_count = 0
           /\ state' = [state EXCEPT !.consecutive_count = 0]
           /\ now' = now /\ records' = records /\ posts' = posts ]_vars

\* The cooldown has long elapsed since an action recorded in this run, and
\* the count still stands
C5_Witness ==
    /\ records >= 1
    /\ ticks >= 1
    /\ state.consecutive_count >= 3
    /\ ~IsNone(state.last_action_time)
    /\ Elapsed(state) >= consecutive_cooldown_minutes * SecondsPerMinute

\* A step that writes the state file: record_action, queue_action,
\* reset_consecutive, or a get_next_action that returns an action
WriteStep ==
    \/ RecordStep
    \/ posts' = posts + 1
    \/ state.consecutive_count > 0 /\ state'.consecutive_count = 0
    \/ /\ now' = now
       /\ ret'.op = "get_next_action" /\ ~IsNone(ret'.action)
       /\ Len(state'.action_queue) < Len(state.action_queue)

(* C6: after any write of the pacing state, for any channel name and any   *)
(* clock advance, daily_counts holds no entry dated more than 7 days       *)
(* before the write and still holds every entry dated within the last 7    *)
(* days, the entry just incremented included.                              *)
C6_PrunedAfterEveryWrite ==
    [][ WriteStep =>
          /\ \A k \in DOMAIN state'.daily_counts :
                DateOfKey(k) >= Today - KeepDays
          /\ \A k \in DOMAIN state.daily_counts :
                DateOfKey(k) >= Today - KeepDays
                  => k \in DOMAIN state'.daily_counts
          /\ \A s \in Subreddits :
                RecordStepOn(s)
                  => Append(s, Dat(Today)) \in DOMAIN state'.daily_counts
        ]_vars

(* C7: record_action(s) sets last_action_time to now, raises today's count *)
(* of s by exactly 1, raises consecutive_count by exactly 1 and persists;  *)
(* action_queue and the counts of every other key of the 7-day window are  *)
(* unchanged.                                                              *)
C7_RecordActionEffect ==
    [][ \A s \in Subreddits :
          RecordStepOn(s) =>
            /\ state'.last_action_time = Some(IsoFormat(now))
            /\ CountToday(state', s) = CountToday(state, s) + 1
            /\ state'.consecutive_count = state.consecutive_count + 1
            /\ disk' = Some(state')
            /\ state'.action_queue = state.action_queue
            /\ \A k \in DOMAIN state.daily_counts :
                  (k # Append(s, Dat(Today))
                     /\ DateOfKey(k) >= Today - KeepDays)
                    => /\ k \in DOMAIN state'.daily_counts
                       /\ state'.daily_counts[k] = state.daily_counts[k]
        ]_vars

C9_GlobalIntervalPerChannelQuota ==
    \A s \in Subreddits :
        LET r == CanPostNow(state, now, s)
        IN /\ (~IsNone(state.last_action_time)
                 /\ Elapsed(state) < IntervalFor(state.consecutive_count))
                => ~r.can_post
           /\ r.reason = "Daily limit reached"
                <=> CountToday(state, s) >= max_daily_per_subreddit

\* One subreddit is at its cap and, ten minutes after the last action,
\* another one is refused for the cooldown and not for the daily limit
C9_Witness ==
    /\ records >= 1
    /\ ticks >= 1
    /\ state.consecutive_count >= 3
    /\ \E a, b \in Subreddits :
          /\ a # b
          /\ CountToday(state, a) >= max_daily_per_subreddit
          /\ CountToday(state, b) = 0
          /\ Elapsed(state) >= min_delay_minutes * SecondsPerMinute
          /\ CanPostNow(state, now, b).reason = "Too soon"

\* x.get('priority', 1), as the claim states it
ClaimedPriority(x) == IF IsNone(x.priority) THEN 1 ELSE The(x.priority)

(* C10: an action returned by get_next_action has the highest priority of  *)
(* the queue (a missing priority counting as 1) and is, among the actions  *)
(* of that priority, the one enqueued first; the gate approves its         *)
(* subreddit at the time of the call; exactly that action leaves the queue.*)
C10_GetNextAction ==
    [][ (now' = now /\ ret'.op = "get_next_action" /\ ~IsNone(ret'.action)) =>
          LET a == The(ret'.action)
              q == state.action_queue
              q2 == state'.action_queue
          IN /\ \E i \in 1..Len(q) : q[i] = a
             /\ \A i \in 1..Len(q) :
                   /\ ClaimedPriority(q[i]) <= ClaimedPriority(a)
                   /\ ClaimedPriority(q[i]) = ClaimedPriority(a)
                        => a.post_id <= q[i].post_id
             /\ CanPostNow(state, now, a.subreddit).can_post
             /\ Len(q2) = Len(q) - 1
             /\ {q2[i] : i \in 1..Len(q2)}
                  = {q[i] : i \in 1..Len(q)} \ {a}
        ]_vars

\* The action enqueued second was returned ahead of the one enqueued first
C10_Witness ==
    /\ ret.op = "get_next_action"
    /\ ~IsNone(ret.action)
    /\ The(ret.action).post_id = 2
    /\ \E i \in 1..Len(state.action_queue) :
          state.action_queue[i].post_id = 1

\* A step that is a call of get_next_action
GetNextStep == now' = now /\ ret'.op = "get_next_action"

(* C11: when the gate refuses the subreddit of the first queued action,    *)
(* get_next_action returns nothing and action_queue is afterwards the same *)
(* sequence as before the call: the same elements in the same order.       *)
C11_GatedQueueUntouched ==
    [][ (GetNextStep /\ state.action_queue # <<>> /\ IsNone(ret'.action))
          => state'.action_queue = state.action_queue ]_vars

(* C12: every operation that changes the pacing state has persisted the    *)
(* full state when it returns: after record_action, reset_consecutive,     *)
(* queue_action and get_next_action the state file equals the state in     *)
(* memory, the order of action_queue included.                             *)
C12_MutationPersisted ==
    [][ state' # state => disk' = Some(state') ]_vars

----------------------------------------------------------------------------
(* Vocabulary of the tracker's properties                                  *)

\* A step that is the call check_for_triggers(p, cs)
CheckStep(p, cs) ==
    /\ sret'.op = "check_for_triggers"
    /\ now' = now
    /\ tracking' = CheckForTriggersState(tracking, now, p, cs)
    /\ sret'.notification = CheckForTriggersResult(tracking, now, p, cs)

\* The status of every deployment record, in order
Statuses(tr) ==
    [i \in DOMAIN tr.deployed_comments |-> tr.deployed_comments[i].status]

\* An earlier check_for_triggers call for post p returned a notification:
\* each such call appended its notification, and none is ever removed
HasNotified(tr, p) ==
    \E i \in DOMAIN tr.triggered_notifications :
        tr.triggered_notifications[i].post_id = p

(* C13: once a check_for_triggers call for a post has returned a           *)
(* notification, every later call for that post returns nothing and leaves *)
(* every deployment's status unchanged; and no step of deploy,             *)
(* check_for_triggers or mark_notification_read changes a status from      *)
(* triggered to monitoring.                                                *)
C13_TriggeredOnce ==
    [][ /\ \A p \in PostIds, cs \in CommentLists :
              (CheckStep(p, cs) /\ HasNotified(tracking, p))
                  => /\ IsNone(sret'.notification)
                     /\ Statuses(tracking') = Statuses(tracking)
        /\ \A i \in DOMAIN tracking.deployed_comments :
              tracking.deployed_comments[i].status = "triggered"
                  => tracking'.deployed_comments[i].status # "monitoring"
      ]_vars

\* The positions of the deployment records with status triggered
Triggered(tr) ==
    {i \in DOMAIN tr.deployed_comments :
         tr.deployed_comments[i].status = "triggered"}

(* C14: in every reachable tracker state triggered_notifications holds as  *)
(* many entries as there are deployment records with status triggered, and *)
(* a deployment record has status triggered exactly when its op_replied is *)
(* true and its triggered_at is set.                                       *)
C14_OneNotificationPerTrigger ==
    /\ Len(tracking.triggered_notifications) = Cardinality(Triggered(tracking))
    /\ \A i \in DOMAIN tracking.deployed_comments :
          LET d == tracking.deployed_comments[i]
          IN d.status = "triggered"
                 <=> (d.op_replied /\ ~IsNone(d.triggered_at))

\* check_for_triggers has just returned a notification, with another
\* deployment still monitored
C14_Witness ==
    /\ sret.op = "check_for_triggers"
    /\ ~IsNone(sret.notification)
    /\ Triggered(tracking) # {}
    /\ Triggered(tracking) # DOMAIN tracking.deployed_comments

\* Some trigger phrase of the record occurs in the body of some new
\* comment when the letter case of both is ignored
MatchesIgnoringCase(deployed, cs) ==
    \E i \in DOMAIN cs, j \in DOMAIN deployed.triggers :
        /\ ~IsNone(cs[i].body)
        /\ Contains(Lower(deployed.triggers[j]), Lower(The(cs[i].body)))

(* C15: trigger matching is a case-insensitive substring match: when       *)
(* check_for_triggers is called for a post that has a monitored record and *)
(* a trigger phrase of the record occurs in a new comment's body under any *)
(* letter casing of either, the call returns a notification.               *)
C15_CaseInsensitiveMatch ==
    [][ \A p \in PostIds, cs \in CommentLists :
          ( /\ CheckStep(p, cs)
            /\ MonitorIndex(tracking, p) # 0
            /\ MatchesIgnoringCase(
                   tracking.deployed_comments[MonitorIndex(tracking, p)], cs) )
              => ~IsNone(sret'.notification) ]_vars

\* The deploy_sniper_comment calls of the model: the direct ones and the
\* ones the orchestrator makes in a live run
DeployCalls == DeployInputs \cup {LiveDeployInput(post) : post \in FoundPosts}

\* A step that is the call deploy_sniper_comment with the arguments d
DeployStep(d) ==
    /\ sret'.op = "deploy_sniper_comment"
    /\ now' = now
    /\ tracking' = DeploySniperCommentState(tracking, now, d, SniperReply)

(* C16: deploy appends exactly one new record, with status monitoring and  *)
(* op_replied false, when post_id and comment_id are both present, leaving *)
(* the existing records and the notifications unchanged; when post_id or   *)
(* comment_id is missing (None) it fails and adds no record.               *)
C16_DeployNeedsIdentifiers ==
    [][ \A d \in DeployCalls :
          DeployStep(d) =>
            IF ~IsNone(d.post_id) /\ ~IsNone(d.comment_id)
            THEN /\ Len(tracking'.deployed_comments)
                        = Len(tracking.deployed_comments) + 1
                 /\ SubSeq(tracking'.deployed_comments, 1,
                           Len(tracking.deployed_comments))
                        = tracking.deployed_comments
                 /\ LET new == tracking'.deployed_comments[
                                   Len(tracking'.deployed_comments)]
                    IN /\ new.status = "monitoring"
                       /\ new.op_replied = FALSE
                       /\ new.post_id = d.post_id
                       /\ new.comment_id = d.comment_id
                 /\ tracking'.triggered_notifications
                        = tracking.triggered_notifications
            ELSE tracking' = tracking ]_vars

\* The positions of the records of post p that are still monitored
ActiveMonitorsOf(tr, p) ==
    {i \in DOMAIN tr.deployed_comments :
         /\ tr.deployed_comments[i].post_id = p
         /\ tr.deployed_comments[i].status = "monitoring"}

(* C17: in every state reachable through the orchestrator's live runs and  *)
(* monitoring passes, deployed_comments holds at most one record with      *)
(* status monitoring for any given post_id.                                *)
C17_OneActiveMonitorPerPost ==
    \A p \in PostIds : Cardinality(ActiveMonitorsOf(tracking, p)) <= 1

(* C18: mark_notification_read changes only the read and handled_at fields *)
(* of notifications and never the status, op_replied or triggered_at of a  *)
(* deployment record; deploy_sniper_comment and check_for_triggers never   *)
(* change the read flag of an existing notification.                       *)
C18_ReadStateIndependent ==
    [][ /\ sret'.op = "mark_notification_read" =>
              /\ Len(tracking'.deployed_comments)
                     = Len(tracking.deployed_comments)
              /\ \A i \in DOMAIN tracking.deployed_comments :
                    LET d == tracking.deployed_comments[i]
                        e == tracking'.deployed_comments[i]
                    IN /\ e.status = d.status
                       /\ e.op_replied = d.op_replied
                       /\ e.triggered_at = d.triggered_at
              /\ Len(tracking'.triggered_notifications)
                     = Len(tracking.triggered_notifications)
              /\ \A i \in DOMAIN tracking.triggered_notifications :
                    LET n == tracking.triggered_notifications[i]
                        m == tracking'.triggered_notifications[i]
                    IN [m EXCEPT !.read = n.read,
                                 !.handled_at = n.handled_at] = n
        /\ sret'.op \in {"deploy_sniper_comment", "check_for_triggers"} =>
              \A i \in DOMAIN tracking.triggered_notifications :
                  tracking'.triggered_notifications[i].read
                      = tracking.triggered_notifications[i].read
      ]_vars

\* A notification has been marked read, its deployment is still triggered,
\* and a later check_for_triggers call has fired for another deployment
C18_Witness ==
    /\ sret.op = "check_for_triggers"
    /\ ~IsNone(sret.notification)
    /\ \E i \in DOMAIN tracking.triggered_notifications :
          /\ tracking.triggered_notifications[i].read = Some(TRUE)
          /\ \E k \in Triggered(tracking) :
                tracking.deployed_comments[k].post_id
                    = tracking.triggered_notifications[i].post_id

----------------------------------------------------------------------------
(* Vocabulary of the scorer's properties                                   *)

\* The candidates that have been scored
Scored == {i \in DOMAIN candidates : ~IsNone(candidates[i].relevance_score)}

\* The sum of the rule contributions as the specification states them
ClaimedSum(f, post) ==
    LET text == TextOf(post)
        primary == CountMatches(f.primary_keywords, text)
        pain == CountMatches(f.pain_point_keywords, text)
        competitor == CountMatches(f.competitor_keywords, text)
    IN Min(15 * primary, 30)
       + Min(20 * pain, 40)
       + (IF competitor > 0 THEN 25 ELSE 0)
       + (IF HighValueSearch(text) THEN 20 ELSE 0)
       + (IF Contains(<<"?">>, post.title) \/ StartsWith(text, QuestionPrefixes)
          THEN 10 ELSE 0)
       + (IF post.num_comments >= 10 THEN 10
          ELSE IF post.num_comments >= 5 THEN 5 ELSE 0)
       + (IF IsNone(post.age_hours) THEN 0
          ELSE IF The(post.age_hours) < 6 THEN 15
          ELSE IF The(post.age_hours) < 24 THEN 10 ELSE 0)

\* The cap the specification states for the contribution of a rule
ClaimedCap(rule) ==
    CASE rule = "primary_keywords" -> 30
      [] rule = "pain_point_keywords" -> 40
      [] rule = "competitor_mention" -> 25
      [] rule = "high_value_pattern" -> 20
      [] rule = "question_format" -> 10
      [] rule \in {"high_engagement", "medium_engagement"} -> 10
      [] rule \in {"very_fresh", "fresh"} -> 15

\* One primary match, one pain-point match, a high-value pattern,
\* 8 comments and an age of 12 hours
C19_Scenario(f, post) ==
    /\ CountMatches(f.primary_keywords, TextOf(post)) = 1
    /\ CountMatches(f.pain_point_keywords, TextOf(post)) = 1
    /\ HighValueSearch(TextOf(post))
    /\ post.num_comments = 8
    /\ post.age_hours = Some(12)

(* C19: for every candidate and keyword configuration the relevance score  *)
(* is min(100, sum of the rule contributions) and lies in 0..100, where    *)
(* the contributions are: primary keywords min(15n, 30), pain-point        *)
(* keywords min(20n, 40), competitor 25, high-value pattern 20, question   *)
(* form 10, engagement 10 from 10 comments and 5 from 5, freshness 15      *)
(* below 6 hours and 10 below 24; no recorded contribution exceeds its     *)
(* cap; and a candidate with one primary match, one pain-point match, a    *)
(* high-value pattern, 8 comments and age 12h scores at least 65.          *)
C19_ScoreIsCappedSum ==
    \A i \in Scored :
        LET post == candidates[i]
            score == The(post.relevance_score)
            reasons == The(post.relevance_reasons)
        IN /\ score = Min(100, ClaimedSum(finder, post))
           /\ score \in 0..100
           /\ \A k \in DOMAIN reasons :
                 reasons[k].points <= ClaimedCap(reasons[k].rule)
           /\ C19_Scenario(finder, post) => score >= 65

\* A scored candidate that matches three primary and three pain-point
\* keywords and whose contributions add up to more than 100
C19_Witness ==
    \E i \in Scored :
        /\ CountMatches(finder.primary_keywords, TextOf(candidates[i])) = 3
        /\ CountMatches(finder.pain_point_keywords, TextOf(candidates[i])) = 3
        /\ ClaimedSum(finder, candidates[i]) > 100
        /\ candidates[i].relevance_score = Some(100)

(* C20: scoring is deterministic and idempotent: every call of the scorer  *)
(* returns the score and the reasons list, in the same order, that every   *)
(* candidate with the same input fields scored before it carries, in       *)
(* whatever order the candidates are scored and also when the candidate    *)
(* scored is one that already carries relevance_score and                  *)
(* relevance_reasons.                                                      *)
C20_ScoringDeterministic ==
    [][ \A j \in Scored :
          /\ scored'.score = The(candidates[j].relevance_score)
          /\ scored'.reasons = The(candidates[j].relevance_reasons)
          /\ candidates'[scored'.index].relevance_score
                 = candidates[j].relevance_score
          /\ candidates'[scored'.index].relevance_reasons
                 = candidates[j].relevance_reasons ]_vars

\* Every candidate of the run has been scored, the first one last, and
\* the reasons list holds several rules
C20_Witness ==
    /\ Scored = DOMAIN candidates
    /\ Cardinality(Scored) >= 2
    /\ scored.index = 1
    /\ Len(scored.reasons) >= 3

----------------------------------------------------------------------------
(* Vocabulary of the filter                                                *)

\* filter_posts has returned its three lists; results keeps max_for_llm,
\* the argument of the call, next to them
Filtered == results.op = "filter_posts" /\ IsNone(results.raised)

\* The entries of a list of the result that carry the identifier id
EntriesOf(list, id) == {j \in DOMAIN list : list[j].id = id}

ScoreOf(post) == The(post.relevance_score)

Descending(list) ==
    \A j, k \in DOMAIN list : j < k => ScoreOf(list[j]) >= ScoreOf(list[k])

\* C21: whenever filter_posts returns, every input post whose identifier is
\* in the replied-set has an entry in skipped with the reason
\* already_replied, and no entry in for_llm or in maybe, whatever its
\* score, its age and the relevance it would obtain.
C21_RepliedAlwaysSkipped ==
    Filtered =>
        \A i \in DOMAIN candidates :
            candidates[i].id \in replied_posts =>
                /\ \E j \in EntriesOf(results.skipped, candidates[i].id) :
                       results.skipped[j].skip_reason = <<"already_replied">>
                /\ EntriesOf(results.for_llm, candidates[i].id) = {}
                /\ EntriesOf(results.maybe, candidates[i].id) = {}

\* A replied post that is popular, fresh and relevant enough was skipped
C21_Witness ==
    /\ Filtered
    /\ \E j \in DOMAIN results.skipped :
           LET post == results.skipped[j]
           IN /\ post.skip_reason = <<"already_replied">>
              /\ RequiredKeys \subseteq DOMAIN post
              /\ post.score >= MinPostScore
              /\ FilterAgeOf(post) <= MaxPostAgeHours
              /\ CalculateRelevance(finder, post).score >= RelevanceThreshold

\* C22: whenever filter_posts returns, every input post has exactly one
\* entry in for_llm, maybe and skipped together; for_llm holds at most
\* max_for_llm posts and maybe is empty unless for_llm is full; every post
\* of for_llm and maybe scores at least the relevance threshold; both
\* lists are in descending order of score and no post of maybe scores
\* more than a post of for_llm.
C22_FilterPartitions ==
    Filtered =>
        /\ \A i \in DOMAIN candidates :
               Cardinality(EntriesOf(results.for_llm, candidates[i].id))
               + Cardinality(EntriesOf(results.maybe, candidates[i].id))
               + Cardinality(EntriesOf(results.skipped, candidates[i].id)) = 1
        /\ Len(results.for_llm) + Len(results.maybe) + Len(results.skipped)
               = Len(candidates)
        /\ Len(results.for_llm) <= results.max_for_llm
        /\ results.maybe # <<>> => Len(results.for_llm) = results.max_for_llm
        /\ \A j \in DOMAIN results.for_llm :
               ScoreOf(results.for_llm[j]) >= RelevanceThreshold
        /\ \A j \in DOMAIN results.maybe :
               ScoreOf(results.maybe[j]) >= RelevanceThreshold
        /\ Descending(results.for_llm)
        /\ Descending(results.maybe)
        /\ \A j \in DOMAIN results.for_llm, k \in DOMAIN results.maybe :
               ScoreOf(results.for_llm[j]) >= ScoreOf(results.maybe[k])

\* Two posts pass the filter in ascending order of score and come out with
\* the better one in for_llm and the other in maybe, next to a list where
\* a post was skipped
C22_Witness ==
    /\ Filtered
    /\ Len(results.for_llm) = 1
    /\ Len(results.maybe) = 1
    /\ results.for_llm[1].id > results.maybe[1].id
    /\ ScoreOf(results.for_llm[1]) > ScoreOf(results.maybe[1])

----------------------------------------------------------------------------
(* Vocabulary of the categorizer                                           *)

Categorized == results.op = "categorize_post"

CategorizedText == TextOf(candidates[results.index])

IsComplaintAboutCompetitor ==
    HasCompetitor(finder, CategorizedText) /\ HasComplaint(CategorizedText)

\* C23: the category of a post is competitor_complaint when its text holds
\* a competitor name and a complaint word, whatever else it matches;
\* otherwise recommendation_request when a recommendation pattern matches,
\* whatever technical pattern matches; otherwise technical_question when a
\* technical pattern matches; otherwise general_discussion.
C23_CategoryPrecedence ==
    Categorized =>
        /\ IsComplaintAboutCompetitor
               => results.category = "competitor_complaint"
        /\ ~IsComplaintAboutCompetitor
           /\ RecommendationIntent(CategorizedText)
               => results.category = "recommendation_request"
        /\ ~IsComplaintAboutCompetitor
           /\ ~RecommendationIntent(CategorizedText)
           /\ TechnicalQuestion(CategorizedText)
               => results.category = "technical_question"
        /\ ~IsComplaintAboutCompetitor
           /\ ~RecommendationIntent(CategorizedText)
           /\ ~TechnicalQuestion(CategorizedText)
               => results.category = "general_discussion"

\* A complaint about a competitor that also matches a recommendation and a
\* technical pattern
C23_Witness ==
    /\ Categorized
    /\ IsComplaintAboutCompetitor
    /\ RecommendationIntent(CategorizedText)
    /\ TechnicalQuestion(CategorizedText)
    /\ results.category = "competitor_complaint"

\* A post that lacks a key which filter_posts or _calculate_relevance reads
\* with post[key]
Malformed(post) == ~(RequiredKeys \subseteq DOMAIN post)

\* C26: a call of filter_posts always returns its three lists, with one
\* entry for every post of the input, and every malformed post of the
\* input (one that lacks id, score, title, body or num_comments) is in
\* skipped with a reason.
C26_MalformedRejectedAlone ==
    results.op = "filter_posts" =>
        /\ IsNone(results.raised)
        /\ Len(results.for_llm) + Len(results.maybe) + Len(results.skipped)
               = Len(candidates)
        /\ \A i \in DOMAIN candidates :
               Malformed(candidates[i]) =>
                   \E j \in DOMAIN results.skipped :
                       /\ Has(results.skipped[j], "skip_reason")
                       /\ Without(results.skipped[j], "skip_reason")
                              = candidates[i]

----------------------------------------------------------------------------
(* Vocabulary of the duplicate check                                       *)

Compared == verdict.op = "is_duplicate"

\* The text similarity of the draft and a body is above 0.6
TooSimilar(body) ==
    LET r == CalculateSimilarity(verdict.proposed_reply, body)
    IN 10 * r.num > 6 * r.den

\* More than 0.7 of the key points of the draft are key points of the body
SamePoints(body) ==
    LET proposed == ExtractKeyPoints(verdict.proposed_reply)
        common == Range(proposed) \cap Range(ExtractKeyPoints(body))
    IN proposed # <<>> /\ 10 * Cardinality(common) > 7 * Len(proposed)

\* C24: a verdict with is_duplicate = true reports in similar_to an
\* existing comment whose text similarity to the draft exceeds 0.6 or
\* whose key points cover more than 0.7 of the key points of the draft;
\* an empty list of comments, and a draft without key points that no
\* comment is too similar to, are never duplicates.
C24_DuplicateHasSignal ==
    Compared =>
        /\ verdict.is_duplicate =>
               \E k \in DOMAIN verdict.existing_comments :
                   LET body == BodyOf(verdict.existing_comments[k])
                   IN /\ verdict.similar_to = Some(Take(body, 200))
                      /\ TooSimilar(body) \/ SamePoints(body)
        /\ verdict.existing_comments = <<>> => ~verdict.is_duplicate
        /\ ( /\ ExtractKeyPoints(verdict.proposed_reply) = <<>>
             /\ \A k \in DOMAIN verdict.existing_comments :
                    ~TooSimilar(BodyOf(verdict.existing_comments[k])) )
               => ~verdict.is_duplicate

\* A duplicate found by its key points alone
C24_Witness ==
    /\ Compared
    /\ verdict.is_duplicate
    /\ \A k \in DOMAIN verdict.existing_comments :
           ~TooSimilar(BodyOf(verdict.existing_comments[k]))

\* The first comment whose body is the draft itself, no earlier comment
\* giving a signal
FirstIdentical(k) ==
    /\ k \in DOMAIN verdict.existing_comments
    /\ verdict.existing_comments[k].body = Some(verdict.proposed_reply)
    /\ \A j \in 1..(k - 1) :
           LET body == BodyOf(verdict.existing_comments[j])
           IN ~TooSimilar(body) /\ ~SamePoints(body)

\* C25: when the body of an existing comment is the draft itself and no
\* earlier comment of the list gives a signal, the verdict is a duplicate
\* with similarity_score 1.0, wherever the comment is in the list.
C25_IdenticalIsDuplicate ==
    Compared =>
        \A k \in DOMAIN verdict.existing_comments :
            FirstIdentical(k) =>
                /\ verdict.is_duplicate
                /\ verdict.similarity_score.num = verdict.similarity_score.den
                /\ verdict.similar_to
                       = Some(Take(verdict.proposed_reply, 200))

\* The identical comment is the second of the list
C25_Witness ==
    /\ Compared
    /\ FirstIdentical(2)
    /\ verdict.is_duplicate
    /\ verdict.reason = "too_similar"

----------------------------------------------------------------------------
(* Vocabulary of the workflows                                             *)

\* C27: in both workflows a collaborator that raises while one post is
\* processed does not end the run: the failure is recorded in the errors
\* of the result for that post, the loop goes on with the posts that are
\* left, and the run never ends by an exception.
C27_FailureCaughtPerItem ==
    /\ run.status # "raised"
    /\ ~IsNone(run.failed) =>
           /\ run.status = "running"
           /\ run.errors # <<>>
           /\ run.errors[Len(run.errors)] = The(run.failed)

----------------------------------------------------------------------------
(* Vocabulary of the construction                                          *)

MissingOrCorrupted(file) == IsNone(file) \/ The(file) = Unparseable

\* C28: constructing PacingEngine, SniperStrategy or the replied-set of
\* PostFinder never fails, and over a file that is missing or cannot be
\* parsed it yields the empty default: no last action, empty queue, no
\* counts; no deployed comment and no notification; the empty set.
C28_MissingOrCorruptedIsFirstRun ==
    /\ IsNone(constructed.raised)
    /\ constructed.component = "PacingEngine" /\ MissingOrCorrupted(disk)
           => state = EmptyState
    /\ constructed.component = "SniperStrategy"
       /\ MissingOrCorrupted(tracking_file)
           => tracking = EmptyTracking
    /\ constructed.component = "PostFinder" /\ MissingOrCorrupted(replied_file)
           => replied_posts = {}

----------------------------------------------------------------------------
(* Vocabulary of the dispatch                                              *)

\* The orchestrator records an action for the post it has just dispatched
RecordsDispatch == records' = records + 1

\* The deployment that the step adds to the tracker
Dispatched == tracking'.deployed_comments[Len(tracking'.deployed_comments)]

\* C29: whenever a run of the orchestrator records an action, the gate has
\* approved the channel of that post and the platform's post call for it
\* has returned a comment identifier; no action is recorded for a post
\* whose post call returned no identifier.
C29_RecordOnlyAfterDispatch ==
    [][RecordsDispatch =>
          /\ Len(tracking'.deployed_comments)
                 = Len(tracking.deployed_comments) + 1
          /\ CanPostNow(state, now, Dispatched.subreddit).can_post
          /\ state' = RecordActionState(state, now, Dispatched.subreddit)
          /\ ~IsNone(Dispatched.comment_id)]_vars

----------------------------------------------------------------------------
(* Two instances sharing the pacing state file                             *)

\* Today's recorded actions, over every subreddit, in a persisted state
RECURSIVE TodaysCount(_, _, _)
TodaysCount(st, t, subreddits) ==
    IF subreddits = {} THEN 0
    ELSE LET s == CHOOSE x \in subreddits : TRUE
         IN GetCount(st.daily_counts, Key(s, Strftime(t)))
              + TodaysCount(st, t, subreddits \ {s})

\* What the file holds, read as any later construction would read it
Persisted == LoadState(disk)

\* C30: when two instances share one state file and alternate whole
\* operations, no update is lost: the persisted state counts every
\* record_action of both instances for today and holds every action
\* queued by either instance.
C30_NoLostUpdate ==
    /\ TodaysCount(Persisted, now, QueueSubreddits) = records
    /\ Len(Persisted.action_queue) = posts
    /\ \A id \in 1..posts :
           \E i \in 1..Len(Persisted.action_queue) :
               Persisted.action_queue[i].post_id = id

----------------------------------------------------------------------------
(* The order of the scan of check_for_triggers                             *)

\* The phrase occurs in the body of the comment, whatever the letter case
\* of either
Holds(new_comment, trigger) ==
    /\ ~IsNone(new_comment.body)
    /\ Contains(Lower(trigger), Lower(The(new_comment.body)))

\* The call that has just returned, and the record it looked at
Scanned == results'.new_comments
Watched == tracking.deployed_comments[MonitorIndex(tracking, results'.post_id)]

(* C31: check_for_triggers scans the responses in input order and, within  *)
(* a response, the trigger phrases in configured order: a returned          *)
(* notification carries the first response of the input that contains any   *)
(* trigger phrase and the first configured phrase that this response        *)
(* contains, and exactly one notification is appended by the call.          *)
C31_FirstPairWins ==
    [][ ( /\ results'.op = "check_for_triggers"
          /\ ~IsNone(sret'.notification) )
          => /\ MonitorIndex(tracking, results'.post_id) # 0
             /\ \E i \in DOMAIN Scanned, j \in DOMAIN Watched.triggers :
                    /\ Holds(Scanned[i], Watched.triggers[j])
                    /\ \A k \in 1..(i - 1), t \in DOMAIN Watched.triggers :
                           ~Holds(Scanned[k], Watched.triggers[t])
                    /\ \A t \in 1..(j - 1) :
                           ~Holds(Scanned[i], Watched.triggers[t])
                    /\ The(sret'.notification).op_comment = Scanned[i]
                    /\ The(sret'.notification).trigger_word
                           = Watched.triggers[j]
             /\ Len(tracking'.triggered_notifications)
                    = Len(tracking.triggered_notifications) + 1 ]_vars

----------------------------------------------------------------------------
(* The order of the duplicate check                                        *)

\* The words of a text: its maximal runs without white space, in lower case
WordsOf(text) ==
    LET t == Lower(text)
    IN {SubSeq(t, x[1], x[2]) :
           x \in {y \in (1..Len(t)) \X (1..Len(t)) :
                     /\ y[1] <= y[2]
                     /\ \A k \in y[1]..y[2] : ~IsSpace(t[k])
                     /\ (y[1] = 1 \/ IsSpace(t[y[1] - 1]))
                     /\ (y[2] = Len(t) \/ IsSpace(t[y[2] + 1]))}}

\* The k-th existing comment gives one of the two signals
Signals(k) ==
    \/ TooSimilar(BodyOf(verdict.existing_comments[k]))
    \/ SamePoints(BodyOf(verdict.existing_comments[k]))

\* The draft and the k-th comment share no word and no key point
Unrelated(k) ==
    LET body == BodyOf(verdict.existing_comments[k])
    IN /\ WordsOf(verdict.proposed_reply) \cap WordsOf(body) = {}
       /\ Range(ExtractKeyPoints(verdict.proposed_reply))
              \cap Range(ExtractKeyPoints(body)) = {}

\* The verdict of a draft that no comment duplicates
Unique ==
    /\ ~verdict.is_duplicate
    /\ verdict.reason = "unique"
    /\ verdict.similarity_score.num = 0

\* The verdict reports the k-th comment, by text similarity if that signal
\* is given and by key points otherwise
Reports(k) ==
    LET body == BodyOf(verdict.existing_comments[k])
    IN /\ verdict.is_duplicate
       /\ verdict.similar_to = Some(Take(body, SimilarToLength))
       /\ IF TooSimilar(body)
          THEN /\ verdict.reason = "too_similar"
               /\ verdict.similarity_score
                      = CalculateSimilarity(verdict.proposed_reply, body)
          ELSE verdict.reason = "key_points"

\* The existing comments are examined in input order and the first one
\* that gives a signal is reported; without a signal the draft is unique
FirstSignalReported ==
    /\ \A k \in DOMAIN verdict.existing_comments :
           ( /\ Signals(k)
             /\ \A j \in 1..(k - 1) : ~Signals(j) ) => Reports(k)
    /\ (\A k \in DOMAIN verdict.existing_comments : ~Signals(k)) => Unique

\* C32 as stated: the first response that gives either signal is reported,
\* text similarity before key points; without a signal, and in particular
\* whenever the draft shares no word and no key point with any response,
\* the verdict is is_duplicate = false with the fixed reason and
\* similarity_score 0.0.
C32_DisjointWordsAreUnique ==
    Compared =>
        /\ FirstSignalReported
        /\ (\A k \in DOMAIN verdict.existing_comments : Unrelated(k))
               => Unique

\* C32: the first response that gives either signal is reported, text
\* similarity before key points; without a signal the verdict is
\* is_duplicate = false with the fixed reason and similarity_score 0.0.
\* A draft that shares no word and no key point with any response is
\* unique when, in addition, no response is too similar to it character
\* by character.
C32_FirstSignalWins ==
    Compared =>
        /\ FirstSignalReported
        /\ (\A k \in DOMAIN verdict.existing_comments :
                /\ Unrelated(k)
                /\ ~TooSimilar(BodyOf(verdict.existing_comments[k])))
               => Unique

\* The second comment is reported for its key points, after a first one
\* that shares no word with the draft and gives no signal
C32_Witness ==
    /\ Compared
    /\ Len(verdict.existing_comments) = 2
    /\ Unrelated(1)
    /\ ~Signals(1)
    /\ Signals(2)
    /\ verdict.reason = "key_points"
    /\ Reports(2)

----------------------------------------------------------------------------
(* The order of the steps of the orchestrator                              *)

\* The last pass of the loop queued or recorded an action for its post
ActedOn == run.last.outcome \in {"queued", "posted"}

\* C33: the pacing gate is consulted only for a candidate that the
\* duplicate check has examined and cleared, and no action is queued or
\* recorded for a candidate that has not passed the duplicate check.
C33_PacedAfterDuplicateCheck ==
    /\ run.last.gate # "none" => run.last.duplicate_check = "cleared"
    /\ ActedOn => run.last.duplicate_check = "cleared"

----------------------------------------------------------------------------
(* The checks of filter_posts that come before the scoring                 *)

\* The post of an entry of skipped has not been scored
NotEnriched(post) ==
    IsNone(post.relevance_score) /\ IsNone(post.relevance_reasons)

\* The entry carries the reason of the first check that its post fails
FirstFailingCheck(entry) ==
    IF entry.id \in replied_posts
    THEN entry.skip_reason = <<"already_replied">> /\ NotEnriched(entry)
    ELSE IF entry.score < MinPostScore
    THEN /\ entry.skip_reason = <<"low_score", entry.score, MinPostScore>>
         /\ NotEnriched(entry)
    ELSE IF FilterAgeOf(entry) > MaxPostAgeHours
    THEN /\ entry.skip_reason
                = <<"too_old", The(entry.age_hours), MaxPostAgeHours>>
         /\ NotEnriched(entry)
    ELSE /\ ~NotEnriched(entry)
         /\ ScoreOf(entry) = CalculateRelevance(finder, entry).score
         /\ ScoreOf(entry) < RelevanceThreshold
         /\ entry.skip_reason
                = <<"low_relevance", ScoreOf(entry), RelevanceThreshold>>

\* C34: the checks already-replied, below the minimum popularity and older
\* than the maximum age run in this order before the scoring and bypass
\* it: an entry of skipped carries the reason of the first of them that
\* its post fails and has no relevance_score and no relevance_reasons, and
\* the post itself is left without them; an entry whose post passes the
\* three checks has been scored and carries a low_relevance reason.
C34_PreFiltersBypassScoring ==
    Filtered =>
        \A j \in DOMAIN results.skipped :
            /\ FirstFailingCheck(results.skipped[j])
            /\ \A i \in DOMAIN candidates :
                   candidates[i].id = results.skipped[j].id =>
                       Without(results.skipped[j], "skip_reason")
                           = candidates[i]

\* A replied post that is unpopular, next to a post that is unpopular and
\* too old and has not been replied to
C34_Witness ==
    /\ Filtered
    /\ \E j, k \in DOMAIN results.skipped :
           /\ results.skipped[j].skip_reason = <<"already_replied">>
           /\ Has(results.skipped[j], "score")
           /\ results.skipped[j].score < MinPostScore
           /\ results.skipped[k].skip_reason[1] = "low_score"
           /\ FilterAgeOf(results.skipped[k]) > MaxPostAgeHours
           /\ NotEnriched(results.skipped[k])

----------------------------------------------------------------------------
(* The head of the queue and the gate                                      *)

\* The queued action of the highest priority, the one enqueued first among
\* those of that priority
IsHead(q, i) ==
    \A j \in DOMAIN q :
        /\ ClaimedPriority(q[j]) <= ClaimedPriority(q[i])
        /\ ClaimedPriority(q[j]) = ClaimedPriority(q[i])
             => q[i].post_id <= q[j].post_id

\* The gate refuses the head of q and approves an action of lower priority
HeadBlocks(st, t) ==
    \E i, j \in DOMAIN st.action_queue :
        /\ IsHead(st.action_queue, i)
        /\ ClaimedPriority(st.action_queue[j])
             < ClaimedPriority(st.action_queue[i])
        /\ ~CanPostNow(st, t, st.action_queue[i].subreddit).can_post
        /\ CanPostNow(st, t, st.action_queue[j].subreddit).can_post

(* C35: get_next_action asks the gate about the queued action of the       *)
(* highest priority only: when the gate refuses that action's subreddit    *)
(* the call returns nothing, also when the gate would approve the          *)
(* subreddit of a queued action of lower priority.                         *)
C35_GatedHeadBlocksQueue ==
    [][ GetNextStep =>
          \A i \in DOMAIN state.action_queue :
              (/\ IsHead(state.action_queue, i)
               /\ ~CanPostNow(state, now,
                              state.action_queue[i].subreddit).can_post)
                  => IsNone(ret'.action) ]_vars

\* The call returned nothing with r/productivity at its daily limit at the
\* head of the queue and an action for another subreddit, which the gate
\* approves, behind it
C35_Witness ==
    /\ ret.op = "get_next_action"
    /\ IsNone(ret.action)
    /\ HeadBlocks(state, now)
    /\ \E i \in DOMAIN state.action_queue :
           /\ IsHead(state.action_queue, i)
           /\ CanPostNow(state, now, state.action_queue[i].subreddit).reason
                = "Daily limit reached"

----------------------------------------------------------------------------
(* What the operations of the queue and the gate leave alone               *)

\* The three fields that record_action writes
Recorded(st) ==
    <<st.last_action_time, st.daily_counts, st.consecutive_count>>

\* A step that is one of the calls can_post_now, queue_action,
\* get_next_action, get_queue_status
QueueStep == now' = now /\ posts' = posts + 1
ReadingStep ==
    /\ now' = now
    /\ ret'.op \in {"can_post_now", "get_next_action", "get_queue_status"}

(* C36: can_post_now, queue_action, get_next_action and get_queue_status   *)
(* leave last_action_time, daily_counts and consecutive_count as they      *)
(* were; action_queue changes in a queue_action step, by one element       *)
(* appended, and in a get_next_action step, and in no other; so a          *)
(* get_next_action call that follows one that returned an action, with no  *)
(* record_action in between, returns an action again when the queue is not *)
(* empty and the gate approves the subreddit of its head.                  *)
C36_QueueFrame ==
    [][ /\ (QueueStep \/ ReadingStep) => Recorded(state') = Recorded(state)
        /\ state'.action_queue # state.action_queue =>
              \/ /\ QueueStep
                 /\ Len(state'.action_queue) = Len(state.action_queue) + 1
                 /\ SubSeq(state'.action_queue, 1, Len(state.action_queue))
                      = state.action_queue
              \/ GetNextStep
        /\ (/\ GetNextStep
            /\ ret.op = "get_next_action"
            /\ ~IsNone(ret.action)
            /\ \E i \in DOMAIN state.action_queue :
                   /\ IsHead(state.action_queue, i)
                   /\ CanPostNow(state, now,
                                 state.action_queue[i].subreddit).can_post)
               => ~IsNone(ret'.action) ]_vars

\* Two actions were queued and nothing was recorded; the second call in a
\* row has returned the action of lower priority, enqueued first, and the
\* state still shows no action
C36_Witness ==
    /\ posts = 2
    /\ records = 0
    /\ IsNone(state.last_action_time)
    /\ state.action_queue = <<>>
    /\ ret.op = "get_next_action"
    /\ ~IsNone(ret.action)
    /\ The(ret.action).post_id = 1

----------------------------------------------------------------------------
(* The gate opens again                                                    *)

\* can_post_now approves every subreddit
GateOpen == \A s \in QueueSubreddits : CanPostNow(state, now, s).can_post

\* The count of s on the day of the last recorded action
CountOnLastDay(st, s) ==
    GetCount(st.daily_counts,
             Key(s, Strftime(FromIsoFormat(The(st.last_action_time)))))

(* C37: the gate always opens again: when no further record_action occurs  *)
(* and the clock keeps advancing, can_post_now comes to approve every      *)
(* subreddit, at the latest when the cooldown has passed and the day has   *)
(* changed, and goes on approving until the next record_action.            *)
C37_GateReopens ==
    /\ \A n \in 0..(MaxReopenRecords + 1) :
           (records = n) ~> (GateOpen \/ records > n)
    /\ []((/\ ~IsNone(state.last_action_time)
           /\ Elapsed(state) >= consecutive_cooldown_minutes * SecondsPerMinute
           /\ Today > The(state.last_action_time).date) => GateOpen)
    /\ [][(GateOpen /\ ~RecordStep) => GateOpen']_vars

\* A subreddit was at its daily limit at the last recorded action; the day
\* has changed and the gate approves every subreddit
C37_Witness ==
    /\ records >= 1
    /\ \E s \in QueueSubreddits :
           CountOnLastDay(state, s) >= max_daily_per_subreddit
    /\ Today > The(state.last_action_time).date
    /\ GateOpen

----------------------------------------------------------------------------
(* The queue is worked off                                                 *)

\* The identifiers of the actions handed out so far
HandedOut == {results.actions[i].post_id : i \in DOMAIN results.actions}

(* C38: every queued action is dispatched in the end: when no further      *)
(* action is queued, get_next_action is called again and again while the   *)
(* clock advances, and record_action is called for each action returned,   *)
(* every action of the queue is returned exactly once and the queue        *)
(* becomes empty.                                                          *)
C38_QueueDrains ==
    /\ [](Cardinality(HandedOut) = Len(results.actions))
    /\ <>[](/\ state.action_queue = <<>>
             /\ HandedOut = 1..posts
             /\ Len(results.actions) = posts)

\* Two actions for r/productivity, which an earlier run had left one short
\* of its daily limit: the second one went out after the day had changed
C38_Witness ==
    /\ posts = 2
    /\ state.action_queue = <<>>
    /\ Len(results.actions) = 2
    /\ \A i \in DOMAIN results.actions :
           results.actions[i].subreddit = <<Txt("productivity")>>
    /\ Today > 0
    /\ \E i \in DOMAIN results.actions :
           The(results.actions[i].queued_at).date = 0

----------------------------------------------------------------------------
(* The cooldown of the orchestrator's runs                                 *)

\* Three actions have been recorded, in this run or before it
Escalated == records >= 3 \/ state.consecutive_count >= 3

\* can_post_now approves a subreddit
Approves == \E s \in Subreddits : CanPostNow(state, now, s).can_post

(* C39: the escalation to the cooldown stays without an explicit reset:    *)
(* once three record_action calls have occurred since the last             *)
(* reset_consecutive, can_post_now approves only when the cooldown of 60   *)
(* minutes has passed since the last action, however far apart the earlier *)
(* actions were; and the orchestrator's loop never resets the count, which *)
(* therefore never goes down in its runs.                                  *)
C39_EscalationStays ==
    /\ [](Escalated =>
            /\ ~IsNone(state.last_action_time)
            /\ Approves =>
                 Elapsed(state)
                     >= consecutive_cooldown_minutes * SecondsPerMinute)
    /\ [][ /\ state'.consecutive_count >= state.consecutive_count
           /\ Escalated => Escalated' ]_vars

\* Ten minutes after an action that this run recorded on top of the four of
\* an earlier run, the last of them a hundred minutes before: the base
\* delay has passed and the gate still refuses for the interval
C39_Witness ==
    /\ records >= 1
    /\ state.consecutive_count >= 3
    /\ Elapsed(state) >= min_delay_minutes * SecondsPerMinute
    /\ Elapsed(state) < consecutive_cooldown_minutes * SecondsPerMinute
    /\ \E s \in Subreddits :
           /\ CountToday(state, s) < max_daily_per_subreddit
           /\ CanPostNow(state, now, s).reason = "Too soon"

----------------------------------------------------------------------------
(* One reply per post                                                      *)

\* The pass just made has posted a reply to the post, deployed a sniper
\* comment on it or queued an action for it
CreatedFor(p) ==
    /\ run.last.post_id = Some(p)
    /\ run.last.outcome \in {"posted", "queued"}

(* C40: a post is replied to at most once across runs: once a live run of  *)
(* either workflow has posted a reply to a post, the identifier of the     *)
(* post is in the replied-set of every later run, and no later run posts a *)
(* second reply to it, deploys a sniper comment on it or queues an action  *)
(* for it.                                                                 *)
C40_RepliedAtMostOnce ==
    \A p \in results.earlier :
        /\ p \in replied_posts
        /\ p \notin results.current
        /\ ~CreatedFor(p)

====
